---------------------------- MODULE Spec2Model ----------------------------
(***************************************************************************)
(* A model of the vc-audit-tool valuation pipeline:                        *)
(*   backend/pipeline/orchestrator.py   ValuationPipeline.run, _run_step   *)
(*   backend/pipeline/step_*.py         enrich, fetch, valuate, persist    *)
(*   backend/valuation/*.py             comps, dcf, last_round, blender    *)
(*   backend/services/pipeline_status.py, db_service.py                    *)
(*                                                                         *)
(* Conventions.                                                            *)
(*  - An Optional[T] value is a sequence: <<>> is None, <<v>> is v.        *)
(*  - A float is an exact rational <<n, d>> with d > 0 in lowest terms,    *)
(*    and the arithmetic of the source is carried out exactly, except      *)
(*    where a rounding error of the doubles decides a test of the source   *)
(*    (the sensitivity grid of the DCF, the mismatch warnings): there the  *)
(*    operands are IEEE-754 doubles.  A value too large for <<n, d>> is    *)
(*    <<n, d, e>>, the number n / d x 2^e.                                 *)
(*  - A list[str] used only through membership (applicable_methods) is a   *)
(*    set; every other list is a sequence.                                 *)
(*  - A warning text is kept as a short literal of the source text.        *)
(***************************************************************************)
EXTENDS Integers, Sequences, FiniteSets, TLC

(***************************************************************************)
(* Bounds of the model.                                                    *)
(***************************************************************************)
\* how many re-blend requests (POST /reweight) are issued after a run
MaxReweights == 1

(***************************************************************************)
(* Optional values and truthiness (Python's `if x:`).                      *)
(***************************************************************************)
None == <<>>
Some(v) == <<v>>

(***************************************************************************)
(* Exact rational arithmetic standing for the source's floats: a number is *)
(* <<n, d>> in lowest terms with d > 0.  The tests of the source that a    *)
(* rounding error of binary floating point decides are computed in         *)
(* doubles, see below.                                                     *)
(***************************************************************************)
Abs(x) == IF x < 0 THEN -x ELSE x

RECURSIVE GCD(_, _)
GCD(a, b) == IF b = 0 THEN a ELSE GCD(b, a % b)

Rat(n, d) ==
  LET g == GCD(Abs(n), Abs(d))
      s == IF d < 0 THEN -1 ELSE 1
  IN  <<(s * n) \div g, (s * d) \div g>>

N(k) == <<k, 1>>
Pct(k) == Rat(k, 100)
RAdd(a, b) ==
  LET g == GCD(a[2], b[2])
  IN  Rat(a[1] * (b[2] \div g) + b[1] * (a[2] \div g), (a[2] \div g) * b[2])
RSub(a, b) ==
  LET g == GCD(a[2], b[2])
  IN  Rat(a[1] * (b[2] \div g) - b[1] * (a[2] \div g), (a[2] \div g) * b[2])
RMul(a, b) ==
  LET g1 == GCD(Abs(a[1]), b[2])
      g2 == GCD(Abs(b[1]), a[2])
  IN  Rat((a[1] \div g1) * (b[1] \div g2), (a[2] \div g2) * (b[2] \div g1))
RDiv(a, b) == RMul(a, Rat(b[2], b[1]))
RLt(a, b) == RSub(a, b)[1] < 0
RLe(a, b) == RSub(a, b)[1] <= 0
RPos(a) == a[1] > 0
RZero(a) == a[1] = 0
RMax(a, b) == IF RLt(a, b) THEN b ELSE a

RECURSIVE RPow(_, _)
RPow(a, k) == IF k = 0 THEN N(1) ELSE RMul(a, RPow(a, k - 1))

RECURSIVE RSum(_)
RSum(s) == IF s = <<>> THEN N(0) ELSE RAdd(Head(s), RSum(Tail(s)))

\* `if x:` for an Optional[float]: neither None nor 0
Truthy(o) == o # None /\ ~RZero(o[1])
\* `if s:` for an Optional[str]: neither None nor ""
TruthyStr(o) == o # None /\ o[1] # ""

(***************************************************************************)
(* Binary floating point.  A Python float is an IEEE-754 double.  Where a  *)
(* test of the source compares sums, differences or quotients that exact   *)
(* arithmetic puts on the threshold, the operands are computed as doubles, *)
(* rounded to nearest, ties to even, after every operation.                *)
(* A double is [neg, exp, mant]: the 53-bit integer mant times 2^exp,      *)
(* negated when neg.  The integer is a sequence of limbs in base 2^15,     *)
(* least significant first, without zero limbs at the end; zero is <<>>.   *)
(* Infinities, NaN and subnormal numbers do not occur in the model.        *)
(***************************************************************************)
DoubleFormat == [mantissa_bits |-> 53, limb_bits |-> 15]
MantissaBits == DoubleFormat.mantissa_bits
LimbBits == DoubleFormat.limb_bits
Base == 2 ^ LimbBits

Limb(a, i) == IF i \in 1..Len(a) THEN a[i] ELSE 0

\* without the zero limbs at the most significant end
RECURSIVE Norm(_)
Norm(a) == IF a # <<>> /\ a[Len(a)] = 0 THEN Norm(SubSeq(a, 1, Len(a) - 1)) ELSE a

RECURSIVE NatLimbs(_)
NatLimbs(n) == IF n = 0 THEN <<>> ELSE <<n % Base>> \o NatLimbs(n \div Base)

RECURSIVE SmallBitLen(_)
SmallBitLen(n) == IF n = 0 THEN 0 ELSE 1 + SmallBitLen(n \div 2)

\* the number of binary digits of a
BitLen(a) == IF a = <<>> THEN 0 ELSE LimbBits * (Len(a) - 1) + SmallBitLen(a[Len(a)])

\* a < b
BigLess(a, b) ==
  \/ Len(a) < Len(b)
  \/ /\ Len(a) = Len(b)
     /\ \E i \in 1..Len(a) : a[i] < b[i] /\ \A j \in (i + 1)..Len(a) : a[j] = b[j]

\* limbs i.. of a + b + carry
RECURSIVE BigAddFrom(_, _, _, _)
BigAddFrom(a, b, i, carry) ==
  IF i > Len(a) /\ i > Len(b) THEN (IF carry = 0 THEN <<>> ELSE <<carry>>)
  ELSE <<(Limb(a, i) + Limb(b, i) + carry) % Base>>
       \o BigAddFrom(a, b, i + 1, (Limb(a, i) + Limb(b, i) + carry) \div Base)

BigAdd(a, b) == BigAddFrom(a, b, 1, 0)

\* limbs i.. of a - b - borrow, for a >= b
RECURSIVE BigSubFrom(_, _, _, _)
BigSubFrom(a, b, i, borrow) ==
  IF i > Len(a) THEN <<>>
  ELSE <<(Limb(a, i) - Limb(b, i) - borrow + Base) % Base>>
       \o BigSubFrom(a, b, i + 1, IF Limb(a, i) - Limb(b, i) - borrow < 0 THEN 1 ELSE 0)

BigSub(a, b) == Norm(BigSubFrom(a, b, 1, 0))

\* a * 2^k
BigShl(a, k) ==
  LET p == 2 ^ (k % LimbBits)
  IN  IF a = <<>> THEN <<>>
      ELSE Norm([i \in 1..(k \div LimbBits) |-> 0]
                \o [i \in 1..(Len(a) + 1) |->
                      ((Limb(a, i) * p) % Base) + ((Limb(a, i - 1) * p) \div Base)])

\* a div 2^k
BigShr(a, k) ==
  LET q == k \div LimbBits
      p == 2 ^ (k % LimbBits)
  IN  IF Len(a) <= q THEN <<>>
      ELSE Norm([i \in 1..(Len(a) - q) |->
                   (Limb(a, i + q) \div p) + (Limb(a, i + q + 1) % p) * (Base \div p)])

FZero == [neg |-> FALSE, exp |-> 0, mant |-> <<>>]

\* the double nearest to m x 2^exp (plus something below the last digit of m
\* when `sticky`), ties to even
RoundToDouble(neg, m, exp, sticky) ==
  LET n == BitLen(m)
      s == n - MantissaBits
      kept == BigShr(m, s)
      dropped == BigSub(m, BigShl(kept, s))
      half == BigShl(<<1>>, s - 1)
      up == \/ BigLess(half, dropped)
            \/ (half = dropped /\ (sticky \/ kept[1] % 2 = 1))
      next == BigAdd(kept, <<1>>)
  IN  IF n = 0 THEN FZero
      ELSE IF n <= MantissaBits
      THEN [neg |-> neg, exp |-> exp + s, mant |-> BigShl(m, -s)]
      ELSE IF ~up THEN [neg |-> neg, exp |-> exp + s, mant |-> kept]
      ELSE IF BitLen(next) > MantissaBits
      THEN [neg |-> neg, exp |-> exp + s + 1, mant |-> BigShr(next, 1)]
      ELSE [neg |-> neg, exp |-> exp + s, mant |-> next]

\* the binary expansion of remainder / d after the digits of m, a limb at a
\* time, until the double is determined
RECURSIVE LiteralFrom(_, _, _, _, _)
LiteralFrom(neg, m, remainder, d, exp) ==
  IF remainder = 0 \/ BitLen(m) >= MantissaBits + 2
  THEN RoundToDouble(neg, m, exp, remainder # 0)
  ELSE LiteralFrom(neg,
                   Norm(<<(remainder * Base) \div d>> \o m),
                   (remainder * Base) % d,
                   d, exp - LimbBits)

\* the float of a number written in the request, in the answer of the language
\* model or in the source: the double nearest to the rational x
Double(x) ==
  LiteralFrom(x[1] < 0, NatLimbs(Abs(x[1]) \div x[2]), Abs(x[1]) % x[2], x[2], 0)

FNeg(a) == IF a.mant = <<>> THEN a ELSE [a EXCEPT !.neg = ~@]
FAbs(a) == [a EXCEPT !.neg = FALSE]

\* a + b
FAdd(a, b) ==
  IF a.mant = <<>> THEN b
  ELSE IF b.mant = <<>> THEN a
  ELSE LET e  == IF a.exp < b.exp THEN a.exp ELSE b.exp
           xa == BigShl(a.mant, a.exp - e)
           xb == BigShl(b.mant, b.exp - e)
       IN  IF a.neg = b.neg THEN RoundToDouble(a.neg, BigAdd(xa, xb), e, FALSE)
           ELSE IF xa = xb THEN FZero
           ELSE IF BigLess(xa, xb) THEN RoundToDouble(b.neg, BigSub(xb, xa), e, FALSE)
           ELSE RoundToDouble(a.neg, BigSub(xa, xb), e, FALSE)

\* a - b
FSub(a, b) == FAdd(a, FNeg(b))

\* long division of r x 2^digits by den for r < den, one binary digit at a
\* time: the quotient, below 2^digits, and the remainder
RECURSIVE DivLimb(_, _, _)
DivLimb(den, r, digits) ==
  IF digits = 0 THEN [q |-> 0, r |-> r]
  ELSE LET r2 == BigShl(r, 1)
           rest == IF BigLess(r2, den) THEN DivLimb(den, r2, digits - 1)
                   ELSE DivLimb(den, BigSub(r2, den), digits - 1)
       IN  [q |-> (IF BigLess(r2, den) THEN 0 ELSE 2 ^ (digits - 1)) + rest.q,
            r |-> rest.r]

\* long division of r x Base^limbs by den for r < den, a limb at a time
RECURSIVE DivFrom(_, _, _)
DivFrom(den, r, limbs) ==
  IF limbs = 0 THEN [q |-> <<>>, r |-> r]
  ELSE LET top == DivLimb(den, r, LimbBits)
           rest == DivFrom(den, top.r, limbs - 1)
       IN  [q |-> Append(rest.q, top.q), r |-> rest.r]

\* the limbs of the quotient after its leading digit: two binary digits more
\* than the mantissa at least
QuotientLimbs == (MantissaBits + 2) \div LimbBits + 1

\* a / b for b # 0
FDiv(a, b) ==
  IF a.mant = <<>> THEN FZero
  ELSE LET res == IF BigLess(a.mant, b.mant)
                  THEN DivFrom(b.mant, a.mant, QuotientLimbs)
                  ELSE DivFrom(b.mant, BigSub(a.mant, b.mant), QuotientLimbs)
           lead == IF BigLess(a.mant, b.mant) THEN <<>> ELSE <<1>>
       IN  RoundToDouble(a.neg # b.neg, Norm(res.q \o lead),
                         a.exp - b.exp - QuotientLimbs * LimbBits, res.r # <<>>)

\* |a| < |b| for doubles other than zero
MagLess(a, b) == a.exp < b.exp \/ (a.exp = b.exp /\ BigLess(a.mant, b.mant))

\* a < b
FLt(a, b) ==
  IF a.mant = <<>> THEN b.mant # <<>> /\ ~b.neg
  ELSE IF b.mant = <<>> THEN a.neg
  ELSE IF a.neg # b.neg THEN a.neg
  ELSE IF a.neg THEN MagLess(b, a)
  ELSE MagLess(a, b)

\* a <= b
FLe(a, b) == ~FLt(b, a)

\* sum(values) of a list of doubles: 0 + v1 + v2 + ...
RECURSIVE FSumFrom(_, _, _)
FSumFrom(values, i, acc) ==
  IF i > Len(values) THEN acc ELSE FSumFrom(values, i + 1, FAdd(acc, values[i]))

FSum(values) == FSumFrom(values, 1, FZero)

Methods == {"comps", "dcf", "last_round"}

(***************************************************************************)
(* backend/valuation/comps.py                                              *)
(***************************************************************************)
\* str.lower() on the sector names the model uses
Lower(s) ==
  CASE s = "Technology" -> "technology"
    [] s = "Software"   -> "software"
    [] s = "SaaS"       -> "saas"
    [] s = "Healthcare" -> "healthcare"
    [] s = "Retail"     -> "retail"
    [] s = "Unknown"    -> "unknown"
    [] OTHER            -> s

\* _SECTOR_GROUPS, each group already lower-cased as line 22 does
SectorGroups ==
  { {"technology", "information technology", "software", "saas"},
    {"consumer cyclical", "consumer defensive", "retail"},
    {"healthcare", "biotechnology", "pharmaceuticals"},
    {"financial services", "fintech", "insurance"} }

\* _sectors_related: 1.0 exact match, 0.5 unknown side or same group, else 0.0
SectorsRelated(sector_a, sector_b) ==
  IF ~TruthyStr(sector_a) \/ ~TruthyStr(sector_b) THEN Rat(1, 2)
  ELSE IF Lower(sector_a[1]) = Lower(sector_b[1]) THEN N(1)
  ELSE IF \E g \in SectorGroups : Lower(sector_a[1]) \in g /\ Lower(sector_b[1]) \in g
       THEN Rat(1, 2)
  ELSE N(0)

\* abs(math.log10(ratio)), exact at the powers of ten and to five decimals at
\* 5 and 1/5; other ratios inside [0.1, 10] are outside the model's inputs
AbsLog10(ratio) ==
  CASE ratio = N(1)       -> N(0)
    [] ratio = N(10)      -> N(1)
    [] ratio = Rat(1, 10) -> N(1)
    [] ratio = N(5)       -> Rat(69897, 100000)
    [] ratio = Rat(1, 5)  -> Rat(69897, 100000)

\* _size_proximity_score(comp_revenue: Optional, target_revenue)
SizeProximityScore(comp_revenue, target_revenue) ==
  IF ~Truthy(comp_revenue) \/ ~RPos(comp_revenue[1]) \/ ~RPos(target_revenue)
  THEN N(0)
  ELSE LET ratio == RDiv(comp_revenue[1], target_revenue)
       IN  IF RLt(ratio, Rat(1, 10)) \/ RLt(N(10), ratio) THEN N(0)
           ELSE RMax(N(0), RSub(N(1), AbsLog10(ratio)))

\* _data_quality_score: 0 without a positive EV/Revenue, else filled / 6
DataQualityScore(comp) ==
  IF comp.ev_to_revenue = None \/ ~RPos(comp.ev_to_revenue[1]) THEN N(0)
  ELSE LET fields == <<comp.market_cap, comp.enterprise_value, comp.revenue,
                       comp.ebitda, comp.ev_to_revenue, comp.ev_to_ebitda>>
           filled == Cardinality({i \in 1..Len(fields) : fields[i] # None})
       IN  Rat(filled, Len(fields))

\* round(x, 2): to the nearest hundredth, ties to the even hundredth
Round2(x) ==
  LET whole == x[1] \div x[2]
      part  == (x[1] % x[2]) * 100
      q     == whole * 100 + (part \div x[2])
      rem2  == 2 * (part % x[2])
      up    == rem2 > x[2] \/ (rem2 = x[2] /\ q % 2 = 1)
  IN  Rat(IF up THEN q + 1 ELSE q, 100)

\* line 70: the weighted sum of the three scores
Composite(s_score, sz_score, dq_score) ==
  RAdd(RAdd(RMul(s_score, Rat(3, 10)), RMul(sz_score, Rat(4, 10))),
       RMul(dq_score, Rat(3, 10)))

\* Fault variant of ExclusionReason: the size rule is tried before the quality
\* rule
ExclusionReasonSizeFirst(target_revenue, sz_score, dq_score, composite) ==
  IF RZero(sz_score) /\ RPos(target_revenue)
  THEN Some("Revenue outside 0.1x-10x range of target")
  ELSE IF RZero(dq_score) THEN Some("Missing EV/Revenue data")
  ELSE IF RLt(composite, Rat(3, 10))
       THEN Some("Composite score below threshold")
  ELSE None

\* lines 72-83: why a comparable is left out, None when it is kept
ExclusionReason(target_revenue, sz_score, dq_score, composite) ==
  IF RZero(dq_score) THEN Some("Missing EV/Revenue data")
  ELSE IF RZero(sz_score) /\ RPos(target_revenue)
       THEN Some("Revenue outside 0.1x-10x range of target")
  ELSE IF RLt(composite, Rat(3, 10))
       THEN Some("Composite score below threshold")
  ELSE None

\* lines 88-97: the CompSelectionScore of one comparable
SelectionScore(ticker, target_revenue, s_score, sz_score, dq_score) ==
  [ticker |-> ticker,
   included |-> ExclusionReason(target_revenue, sz_score, dq_score,
                                Composite(s_score, sz_score, dq_score)) = None,
   sector_score |-> Round2(s_score),
   size_proximity_score |-> Round2(sz_score),
   data_quality_score |-> Round2(dq_score),
   composite_score |-> Round2(Composite(s_score, sz_score, dq_score)),
   exclusion_reason |-> ExclusionReason(target_revenue, sz_score, dq_score,
                                        Composite(s_score, sz_score, dq_score))]

\* one iteration of the loop of score_and_filter_comps (lines 65-97)
ScoreComp(comp, target_revenue, target_sector) ==
  SelectionScore(comp.ticker, target_revenue,
                 SectorsRelated(target_sector, comp.sector),
                 IF RPos(target_revenue)
                 THEN SizeProximityScore(comp.revenue, target_revenue)
                 ELSE Rat(1, 2),
                 DataQualityScore(comp))

\* lines 85-86: the comparables whose score says included, in order
RECURSIVE Included(_, _, _)
Included(comparables, scores, i) ==
  IF i > Len(comparables) THEN <<>>
  ELSE (IF scores[i].included THEN <<comparables[i]>> ELSE <<>>)
       \o Included(comparables, scores, i + 1)

\* line 99: return included, scores
IncludedAndScores(comparables, scores) ==
  [included |-> Included(comparables, scores, 1), scores |-> scores]

\* score_and_filter_comps: (included comparables, one score per comparable)
ScoreAndFilterComps(comparables, target_revenue, target_sector) ==
  IncludedAndScores(comparables,
                    [i \in 1..Len(comparables) |->
                       ScoreComp(comparables[i], target_revenue, target_sector)])

RECURSIVE InsertSorted(_, _)
InsertSorted(x, s) ==
  IF s = <<>> THEN <<x>>
  ELSE IF RLe(x, Head(s)) THEN <<x>> \o s
  ELSE <<Head(s)>> \o InsertSorted(x, Tail(s))

RECURSIVE Sorted(_)
Sorted(s) == IF s = <<>> THEN <<>> ELSE InsertSorted(Head(s), Sorted(Tail(s)))

\* the middle of a sorted non-empty list
Middle(t) ==
  IF Len(t) % 2 = 1 THEN t[(Len(t) + 1) \div 2]
  ELSE RDiv(RAdd(t[Len(t) \div 2], t[Len(t) \div 2 + 1]), N(2))

\* statistics.median and statistics.mean of a non-empty list
Median(s) == Middle(Sorted(s))

Mean(s) == RDiv(RSum(s), N(Len(s)))

\* lines 147-174: the CompsResult from the EV/Revenue and EV/EBITDA multiples
\* of the valid comparables
CompsFromMultiples(target_revenue, valid, ev_rev_values, ebitda_values, warnings, selection_scores) ==
  [method |-> "comps",
   enterprise_value |-> RMul(target_revenue, Median(ev_rev_values)),
   ev_to_revenue_median |-> Median(ev_rev_values),
   ev_to_revenue_mean |-> Mean(ev_rev_values),
   ev_to_ebitda_median |->
     IF ebitda_values # <<>> THEN Some(Median(ebitda_values)) ELSE None,
   ev_to_ebitda_mean |->
     IF ebitda_values # <<>> THEN Some(Mean(ebitda_values)) ELSE None,
   comparable_count |-> Len(valid),
   comparables_used |-> [i \in 1..Len(valid) |-> valid[i].ticker],
   warnings |-> warnings,
   comp_selection_scores |-> selection_scores]

\* lines 130-174: the CompsResult from the comparables with a positive
\* EV/Revenue (valid) and those with a positive EV/EBITDA (ebitda_valid)
CompsFromValid(target_revenue, valid, ebitda_valid, selection_scores) ==
  IF valid = <<>>
  THEN [method |-> "comps",
        enterprise_value |-> N(0),
        ev_to_revenue_median |-> N(0),
        ev_to_revenue_mean |-> N(0),
        ev_to_ebitda_median |-> None,
        ev_to_ebitda_mean |-> None,
        comparable_count |-> 0,
        comparables_used |-> <<>>,
        warnings |-> <<"Only few valid comparable(s) with EV/Revenue data",
                       "No valid comparables available">>,
        comp_selection_scores |-> selection_scores]
  ELSE CompsFromMultiples(target_revenue, valid,
         [i \in 1..Len(valid) |-> valid[i].ev_to_revenue[1]],
         [i \in 1..Len(ebitda_valid) |-> ebitda_valid[i].ev_to_ebitda[1]],
         IF Len(valid) < 2
         THEN <<"Only few valid comparable(s) with EV/Revenue data">> ELSE <<>>,
         selection_scores)

\* lines 130-174: the CompsResult from the comparables that passed selection
CompsFromFiltered(target_revenue, filtered, selection_scores) ==
  CompsFromValid(target_revenue,
    SelectSeq(filtered, LAMBDA c : c.ev_to_revenue # None /\ RPos(c.ev_to_revenue[1])),
    SelectSeq(filtered, LAMBDA c : c.ev_to_ebitda # None /\ RPos(c.ev_to_ebitda[1])),
    selection_scores)

\* lines 112-128: selection applies only when a target sector is given
CompsFromScored(target_revenue, comparables, target_sector, scored) ==
  CompsFromFiltered(target_revenue,
                    IF target_sector # None THEN scored.included ELSE comparables,
                    IF target_sector # None THEN scored.scores ELSE <<>>)

\* compute_comps_valuation(target_revenue, target_ebitda, comparables, target_sector)
\* target_ebitda is not read by the function; target_sector is an Optional[str]
ComputeCompsValuation(target_revenue, comparables, target_sector) ==
  CompsFromScored(target_revenue, comparables, target_sector,
                  ScoreAndFilterComps(comparables, target_revenue, target_sector))

(***************************************************************************)
(* backend/valuation/dcf.py                                                *)
(* A call that may raise yields [raises |-> TRUE, exc |-> name] or         *)
(* [raises |-> FALSE, value |-> v].                                        *)
(***************************************************************************)
Raise(exc) == [raises |-> TRUE, exc |-> exc]
Return(v) == [raises |-> FALSE, value |-> v]

\* ebitda_margins[i] if i < len(ebitda_margins) else ebitda_margins[-1]  (1-based i)
MarginAt(ebitda_margins, i) ==
  IF i <= Len(ebitda_margins) THEN ebitda_margins[i]
  ELSE ebitda_margins[Len(ebitda_margins)]

\* Fault variant of Fcf: the tax is charged on EBITDA, without the D&A shield
FcfTaxOnEbitda(revenue, margin, p, depreciation_percent) ==
  RSub(RSub(RSub(RMul(revenue, margin),
                 RMax(N(0), RMul(RMul(revenue, margin), p.tax_rate))),
            RMul(revenue, p.capex_percent)),
       RMul(revenue, p.nwc_change_percent))

\* lines 22-28: the free cash flow of a year from its revenue and margin
Fcf(revenue, margin, p, depreciation_percent) ==
  RSub(RSub(RSub(RMul(revenue, margin),
                 RMax(N(0), RMul(RSub(RMul(revenue, margin),
                                      RMul(revenue, depreciation_percent)),
                                 p.tax_rate))),
            RMul(revenue, p.capex_percent)),
       RMul(revenue, p.nwc_change_percent))

\* the body of the loop of _compute_ev for year i (1-based)
YearFcf(p, i, depreciation_percent) ==
  Fcf(p.revenue_projections[i], MarginAt(p.ebitda_margins, i), p, depreciation_percent)

\* lines 31-38: discounting of a non-empty list of cash flows
Discount(fcfs, terminal_value, wacc) ==
  [enterprise_value |->
     RAdd(RSum([i \in 1..Len(fcfs) |-> RDiv(fcfs[i], RPow(RAdd(N(1), wacc), i))]),
          RDiv(terminal_value, RPow(RAdd(N(1), wacc), Len(fcfs)))),
   fcfs |-> fcfs,
   terminal_value |-> terminal_value]

\* lines 33-34
TerminalValue(fcfs, wacc, tgr) ==
  RDiv(RMul(fcfs[Len(fcfs)], RAdd(N(1), tgr)), RSub(wacc, tgr))

\* _compute_ev: IndexError on ebitda_margins[-1] / fcfs[-1] of an empty list,
\* ZeroDivisionError on 1 + wacc = 0 or wacc = tgr
ComputeEv(p, depreciation_percent, wacc, tgr) ==
  IF Len(p.revenue_projections) > 0 /\ p.ebitda_margins = <<>> THEN Raise("IndexError")
  ELSE IF Len(p.revenue_projections) > 0 /\ RZero(RAdd(N(1), wacc))
       THEN Raise("ZeroDivisionError")
  ELSE IF Len(p.revenue_projections) = 0 THEN Raise("IndexError")
  ELSE IF wacc = tgr THEN Raise("ZeroDivisionError")
  ELSE Return(Discount(
         [i \in 1..Len(p.revenue_projections) |-> YearFcf(p, i, depreciation_percent)],
         TerminalValue(
           [i \in 1..Len(p.revenue_projections) |-> YearFcf(p, i, depreciation_percent)],
           wacc, tgr),
         wacc))

\* round(x, 4): to the nearest ten-thousandth, ties to even
Round4(x) ==
  LET whole == x[1] \div x[2]
      part  == (x[1] % x[2]) * 10000
      q     == whole * 10000 + (part \div x[2])
      rem2  == 2 * (part % x[2])
      up    == rem2 > x[2] \/ (rem2 = x[2] /\ q % 2 = 1)
  IN  Rat(IF up THEN q + 1 ELSE q, 10000)

\* lines 52-53: the deltas of the 5x5 grid
WaccDeltas == <<Rat(-2, 100), Rat(-1, 100), N(0), Rat(1, 100), Rat(2, 100)>>
TgrDeltas == <<Rat(-1, 100), Rat(-5, 1000), N(0), Rat(5, 1000), Rat(1, 100)>>

\* lines 52-53: the steps base + delta of one axis of the grid, each as the
\* exact sum x and as the double f the code adds up
GridSteps(base, deltas) ==
  LET base_double == Double(base)
  IN  [i \in DOMAIN deltas |->
         [x |-> RAdd(base, deltas[i]), f |-> FAdd(base_double, Double(deltas[i]))]]

\* line 58: if w <= t or w <= 0: continue, on the doubles of the grid
CellSkipped(w, t) == FLe(w, t) \/ FLe(w, FZero)

\* k x 2^exp with k odd
RECURSIVE OddUnits(_, _)
OddUnits(k, exp) == IF k % 2 = 0 THEN OddUnits(k \div 2, exp + 1) ELSE [k |-> k, exp |-> exp]

\* the double gap > 0 as k x 2^exp with k an odd integer below 2^30
RECURSIVE GapUnitsFrom(_, _)
GapUnitsFrom(m, exp) ==
  IF Len(m) > 1 /\ m[1] = 0 THEN GapUnitsFrom(Tail(m), exp + LimbBits)
  ELSE OddUnits(Limb(m, 1) + Base * Limb(m, 2), exp)

GapUnits(gap) == GapUnitsFrom(gap.mant, gap.exp)

\* _compute_ev (lines 31-37) for a pair of the grid that is one number w in
\* exact arithmetic while the doubles differ by gap > 0: the terminal cash
\* flow is divided by the gap.  The discounted cash flows are below the last
\* digit of the discounted terminal value and are lost in the sum of line 37,
\* and round(ev, 2) leaves a double of this size as it is.
DegenerateEv(fcfs, w, t, gap) ==
  LET terminal_fcf == RMul(fcfs[Len(fcfs)], RAdd(N(1), t))
      units == GapUnits(gap)
      mantissa == RDiv(RDiv(terminal_fcf, N(units.k)), RPow(RAdd(N(1), w), Len(fcfs)))
  IN  IF RZero(terminal_fcf)
      THEN Round2(Discount(fcfs, N(0), w).enterprise_value)
      ELSE <<mantissa[1], mantissa[2], -units.exp>>

\* lines 60-69: the SensitivityCell of a retained pair; _compute_ev is called
\* on the same projections for every cell, so its cash flows are the list
\* fcfs for all of them.  w and t are the exact sums, gap the difference of
\* the doubles.
SensitivityCell(fcfs, w, t, gap) ==
  [wacc |-> Round4(w),
   terminal_growth_rate |-> Round4(t),
   enterprise_value |->
     IF w = t THEN DegenerateEv(fcfs, w, t, gap)
     ELSE Round2(Discount(fcfs, TerminalValue(fcfs, w, t), w).enterprise_value)]

\* one pass of the inner loop (lines 57-69) for the steps w and t of the grid
SensitivityStep(fcfs, w, t) ==
  IF CellSkipped(w.f, t.f) THEN <<>>
  ELSE <<SensitivityCell(fcfs, w.x, t.x, FSub(w.f, t.f))>>

\* lines 56-69: the cells from grid position k on, the WACC steps outermost
RECURSIVE SensitivityCellsFrom(_, _, _, _)
SensitivityCellsFrom(fcfs, wacc_steps, tgr_steps, k) ==
  IF k >= Len(wacc_steps) * Len(tgr_steps) THEN <<>>
  ELSE SensitivityStep(fcfs,
                       wacc_steps[(k \div Len(tgr_steps)) + 1],
                       tgr_steps[(k % Len(tgr_steps)) + 1])
       \o SensitivityCellsFrom(fcfs, wacc_steps, tgr_steps, k + 1)

\* _compute_sensitivity_table, called after _compute_ev returned the cash
\* flows fcfs for the same projections
ComputeSensitivityTable(fcfs, base_wacc, base_tgr) ==
  SensitivityCellsFrom(fcfs, GridSteps(base_wacc, WaccDeltas),
                       GridSteps(base_tgr, TgrDeltas), 0)

\* lines 81-88, 93-100: the zero-value result with its warning
ZeroDcfResult(p, warning) ==
  [method |-> "dcf",
   enterprise_value |-> N(0),
   projected_fcfs |-> <<>>,
   terminal_value |-> N(0),
   discount_rate |-> p.wacc,
   terminal_growth_rate |-> p.terminal_growth_rate,
   warnings |-> <<warning>>,
   sensitivity_table |-> <<>>]

\* lines 104-135: the DCFResult from what _compute_ev returned or raised
DcfFromEv(p, ev) ==
  IF ev.raises THEN ev
  ELSE Return([method |-> "dcf",
               enterprise_value |-> ev.value.enterprise_value,
               projected_fcfs |-> ev.value.fcfs,
               terminal_value |-> ev.value.terminal_value,
               discount_rate |-> p.wacc,
               terminal_growth_rate |-> p.terminal_growth_rate,
               warnings |-> <<>>,
               sensitivity_table |->
                 ComputeSensitivityTable(ev.value.fcfs, p.wacc,
                                         p.terminal_growth_rate)])

\* Fault variant of ComputeDcfValuation: the projections are looked at before
\* the rates
ComputeDcfValuationProjectionsFirst(p) ==
  IF Len(p.revenue_projections) = 0
  THEN Return(ZeroDcfResult(p, "No revenue projections provided"))
  ELSE IF RLe(p.wacc, p.terminal_growth_rate)
  THEN Return(ZeroDcfResult(p, "WACC must be greater than terminal growth rate"))
  ELSE DcfFromEv(p, ComputeEv(p, p.depreciation_percent, p.wacc, p.terminal_growth_rate))

\* compute_dcf_valuation(projections)
ComputeDcfValuation(p) ==
  IF RLe(p.wacc, p.terminal_growth_rate)
  THEN Return(ZeroDcfResult(p, "WACC must be greater than terminal growth rate"))
  ELSE IF Len(p.revenue_projections) = 0
  THEN Return(ZeroDcfResult(p, "No revenue projections provided"))
  ELSE DcfFromEv(p, ComputeEv(p, p.depreciation_percent, p.wacc, p.terminal_growth_rate))

(***************************************************************************)
(* backend/valuation/last_round.py                                         *)
(* The clock of a run is fixed at 2025-01-01; a date string is known by    *)
(* the days between it and the clock, or is rejected by strptime.          *)
(***************************************************************************)
\* (datetime.now() - strptime(date, "%Y-%m-%d")).days, None on ValueError
DaysSinceRound(date) ==
  CASE date = "2024-07-05" -> Some(180)
    [] date = "2023-01-12" -> Some(720)
    [] OTHER               -> None

\* compute_last_round_valuation(last_valuation, last_round_date, index_data)
ComputeLastRoundValuation(last_valuation, last_round_date, index_data) ==
  LET days         == DaysSinceRound(last_round_date)
      months_since == IF days = None THEN None ELSE Some(days[1] \div 30)
      w_parse  == IF days = None THEN <<"Could not parse round date">> ELSE <<>>
      w_stale  == IF months_since # None /\ months_since[1] > 18
                  THEN <<"Last round valuation may be stale">> ELSE <<>>
      has_index == index_data # None /\ index_data[1].return_since_round # None
      index_return == IF has_index THEN index_data[1].return_since_round ELSE None
      adjustment_factor == IF has_index THEN RAdd(N(1), index_return[1]) ELSE N(1)
      w_index  == IF has_index THEN <<>>
                  ELSE <<"No index data available">>
  IN  [method |-> "last_round",
       enterprise_value |-> RMul(last_valuation, adjustment_factor),
       last_round_valuation |-> last_valuation,
       index_return |-> index_return,
       adjustment_factor |-> adjustment_factor,
       months_since_round |-> months_since,
       warnings |-> w_parse \o w_stale \o w_index]

(***************************************************************************)
(* backend/valuation/blender.py                                            *)
(***************************************************************************)
\* the warning texts of the model that contain the marker "model-estimated"
ModelEstimatedDcfWarning == "DCF inputs are model-estimated"
ModelEstimatedLastRoundWarning == "Last round data is model-estimated"

\* "model-estimated" in w
HasMarker(w) == w \in {ModelEstimatedDcfWarning, ModelEstimatedLastRoundWarning}

\* any("model-estimated" in w for w in warnings)
AnyModelEstimated(warnings) == \E i \in 1..Len(warnings) : HasMarker(warnings[i])

\* Fault variant of Contributing: every result that is present contributes,
\* whatever its value
ContributingIfPresent(comps, dcf, last_round) ==
  (IF comps # None THEN <<"comps">> ELSE <<>>)
  \o (IF dcf # None THEN <<"dcf">> ELSE <<>>)
  \o (IF last_round # None THEN <<"last_round">> ELSE <<>>)

\* lines 14-23: the methods that contributed, in insertion order
Contributing(comps, dcf, last_round) ==
  (IF comps # None /\ RPos(comps[1].enterprise_value) THEN <<"comps">> ELSE <<>>)
  \o (IF dcf # None /\ RPos(dcf[1].enterprise_value) THEN <<"dcf">> ELSE <<>>)
  \o (IF last_round # None /\ RPos(last_round[1].enterprise_value)
      THEN <<"last_round">> ELSE <<>>)

\* results[method]
ResultOf(method, comps, dcf, last_round) ==
  CASE method = "comps"      -> comps[1].enterprise_value
    [] method = "dcf"        -> dcf[1].enterprise_value
    [] method = "last_round" -> last_round[1].enterprise_value

\* Fault variant of DefaultWeight: for the last round, staleness is checked
\* before the estimation flag
DefaultWeightStalenessFirst(method, comps, dcf, last_round) ==
  CASE method = "comps" ->
         [method |-> method,
          weight |-> IF comps[1].comparable_count >= 3 THEN Pct(40) ELSE Pct(25),
          rationale |-> "comps"]
    [] method = "dcf" ->
         [method |-> method,
          weight |-> IF AnyModelEstimated(dcf[1].warnings) THEN Pct(15) ELSE Pct(35),
          rationale |-> "dcf"]
    [] method = "last_round" ->
         [method |-> method,
          weight |-> IF /\ last_round[1].months_since_round # None
                        /\ last_round[1].months_since_round[1] > 18
                     THEN Pct(15)
                     ELSE IF AnyModelEstimated(last_round[1].warnings)
                     THEN Pct(10) ELSE Pct(25),
          rationale |-> "last_round"]

\* _default_weights for one contributing method: [method, weight, rationale]
DefaultWeight(method, comps, dcf, last_round) ==
  CASE method = "comps" ->
         IF comps[1].comparable_count >= 3
         THEN [method |-> method, weight |-> Pct(40),
               rationale |-> "Weight 0.40: comparable_count >= 3 threshold"]
         ELSE [method |-> method, weight |-> Pct(25),
               rationale |-> "Weight 0.25: comparable_count < 3 threshold"]
    [] method = "dcf" ->
         IF AnyModelEstimated(dcf[1].warnings)
         THEN [method |-> method, weight |-> Pct(15),
               rationale |-> "Weight 0.15: DCF, model-estimated inputs"]
         ELSE [method |-> method, weight |-> Pct(35),
               rationale |-> "Weight 0.35: DCF, intrinsic value anchor"]
    [] method = "last_round" ->
         LET months == last_round[1].months_since_round
             stale  == months # None /\ months[1] > 18
         IN  IF AnyModelEstimated(last_round[1].warnings)
             THEN [method |-> method, weight |-> Pct(10),
                   rationale |-> "Weight 0.10: last round data is model-estimated"]
             ELSE IF stale
             THEN [method |-> method, weight |-> Pct(15),
                   rationale |-> "Weight 0.15: last round > 18mo staleness threshold"]
             ELSE [method |-> method, weight |-> Pct(25),
                   rationale |-> "Weight 0.25: last round within 18mo freshness window"]

\* _default_weights: one entry per contributing method, comps, dcf, last_round
DefaultWeights(comps, dcf, last_round, results) ==
  [i \in 1..Len(results) |-> DefaultWeight(results[i], comps, dcf, last_round)]

\* {k: v for k, v in custom_weights.items() if k in results}; a dict is the
\* sequence of its items, each [method, weight]
CustomWeights(custom_weights, results) ==
  LET kept == SelectSeq(custom_weights,
                LAMBDA kv : \E i \in 1..Len(results) : results[i] = kv.method)
  IN  [i \in 1..Len(kept) |->
         [method |-> kept[i].method, weight |-> kept[i].weight,
          rationale |-> "Custom weight"]]

\* Fault variant of Normalize: the weights are used as chosen
NormalizeSkipped(weights) == weights

\* lines 42-45: divide by the total when the total is positive
Normalize(weights) ==
  LET total_weight == RSum([i \in 1..Len(weights) |-> weights[i].weight])
  IN  IF RPos(total_weight)
      THEN [i \in 1..Len(weights) |->
              [weights[i] EXCEPT !.weight = RDiv(weights[i].weight, total_weight)]]
      ELSE weights

\* lines 50-68: the BlendedValuation of a fair value and its weights
Blended(comps, dcf, last_round, weights, fair_value, range_pct) ==
  [fair_value |-> fair_value,
   fair_value_range |-> <<RMul(fair_value, RSub(N(1), range_pct)),
                          RMul(fair_value, RAdd(N(1), range_pct))>>,
   methodology_weights |-> weights,
   comps_result |-> comps,
   dcf_result |-> dcf,
   last_round_result |-> last_round]

\* lines 47-68: the weighted sum under the normalized weights
BlendWeights(comps, dcf, last_round, weights) ==
  Blended(comps, dcf, last_round, weights,
          RSum([i \in 1..Len(weights) |->
                  RMul(ResultOf(weights[i].method, comps, dcf, last_round),
                       weights[i].weight)]),
          IF comps # None /\ comps[1].comparable_count >= 5 THEN Pct(15) ELSE Pct(20))

\* lines 25-45: nothing contributed, or the weights are chosen and normalized;
\* custom_weights is None or a dict, and an empty dict is falsy
BlendResults(comps, dcf, last_round, custom_weights, results) ==
  IF results = <<>>
  THEN [fair_value |-> N(0),
        fair_value_range |-> <<N(0), N(0)>>,
        methodology_weights |-> <<>>,
        comps_result |-> comps,
        dcf_result |-> dcf,
        last_round_result |-> last_round]
  ELSE BlendWeights(comps, dcf, last_round,
                    Normalize(IF custom_weights # None /\ custom_weights[1] # <<>>
                              THEN CustomWeights(custom_weights[1], results)
                              ELSE DefaultWeights(comps, dcf, last_round, results)))

\* compute_blended_valuation(comps, dcf, last_round, custom_weights)
ComputeBlendedValuation(comps, dcf, last_round, custom_weights) ==
  BlendResults(comps, dcf, last_round, custom_weights,
               Contributing(comps, dcf, last_round))

(***************************************************************************)
(* backend/pipeline/step_enrich.py                                         *)
(* The language-model collaborator is given by what it answers:            *)
(*   llm.fails     structured_completion raises after its retries          *)
(*   llm.research  the research text: [text, sources, financials], where   *)
(*                 sources is what _parse_research_sources finds in it and *)
(*                 financials what _extract_financials_from_research finds *)
(*   llm.response  the EnrichedInput parsed from its JSON answer           *)
(***************************************************************************)
\* fallback_enrich(request)
fallback_enrich(request) ==
  LET methods ==
        (IF Truthy(request.revenue) THEN {"comps"} ELSE {})
        \cup (IF request.financial_projections # None THEN {"dcf"} ELSE {})
        \cup (IF Truthy(request.last_round_valuation) /\ TruthyStr(request.last_round_date)
              THEN {"last_round"} ELSE {})
  IN  [sector |-> IF TruthyStr(request.sector) THEN request.sector[1] ELSE "Unknown",
       comparable_tickers |->
         IF request.comparable_tickers # None THEN request.comparable_tickers[1] ELSE <<>>,
       applicable_methods |-> IF methods # {} THEN methods ELSE {"comps"},
       estimated_financials |-> None,
       estimated_projections |-> None,
       estimated_last_round |-> None,
       research_sources |-> <<>>,
       enrichment_notes |-> Some("Fallback: LLM enrichment unavailable, using raw inputs")]

\* enrich_input, lines 36-42
NeedsResearch(request) ==
  \/ request.revenue = None
  \/ request.ebitda = None
  \/ request.comparable_tickers = None
  \/ request.comparable_tickers[1] = <<>>
  \/ request.financial_projections = None
  \/ request.last_round_valuation = None

\* _structure_enrichment, lines 152-215: the answer and what is done to it
StructureEnrichment(request, research_context, response) ==
  LET extracted == research_context.financials
      ef == IF response.estimated_financials = None /\ request.revenue = None
               /\ research_context.text # "" /\ extracted # None
            THEN extracted ELSE response.estimated_financials
      has_revenue == request.revenue # None
      has_estimated_revenue ==
        ef # None /\ ef[1].estimated_revenue # None /\ RPos(ef[1].estimated_revenue[1])
      m0 == response.applicable_methods
      m1 == IF has_revenue \/ has_estimated_revenue THEN m0 \cup {"comps"} ELSE m0
      ep == response.estimated_projections
      has_estimated == ep # None /\ Len(ep[1].estimated_growth_rates) > 0
      m2 == IF request.financial_projections = None /\ ~has_estimated
            THEN m1 \ {"dcf"} ELSE m1
      elr == response.estimated_last_round
      m3 == IF (request.last_round_valuation = None \/ request.last_round_date = None)
               /\ elr # None /\ RPos(elr[1].estimated_valuation)
               /\ elr[1].estimated_date # ""
            THEN m2 \cup {"last_round"} ELSE m2
  IN  [response EXCEPT !.estimated_financials = ef, !.applicable_methods = m3]

\* enrich_input(request, llm)
enrich_input(request, llm) ==
  LET needs_research == NeedsResearch(request)
      research_context == IF needs_research THEN llm.research
                          ELSE [text |-> "", sources |-> <<>>, financials |-> None]
      result == StructureEnrichment(request, research_context, llm.response)
  IN  IF llm.fails THEN Raise("RuntimeError")
      ELSE Return(IF research_context.sources # <<>>
                  THEN [result EXCEPT !.research_sources = research_context.sources]
                  ELSE result)

(***************************************************************************)
(* backend/pipeline/step_fetch.py and services/market_data_service.py      *)
(* The market-data collaborator is given by                                *)
(*   market.fails   every call to it raises                                *)
(*   market.table   ticker -> Optional[CompanyFinancials]                  *)
(*   market.index   the Optional[IndexData] of fetch_index_data            *)
(***************************************************************************)
\* MarketDataService.fetch_comparable_data: the tickers that have data, in order
fetch_comparable_data(market, tickers) ==
  LET RECURSIVE Go(_)
      Go(i) == IF i > Len(tickers) THEN <<>>
               ELSE (IF market.table[tickers[i]] # None
                     THEN <<market.table[tickers[i]][1]>> ELSE <<>>) \o Go(i + 1)
  IN  Go(1)

\* fetch_market_data(enriched, index_ticker, last_round_date, market_service)
fetch_market_data(enriched, index_ticker, last_round_date, market) ==
  LET want_comps == enriched.comparable_tickers # <<>>
                    /\ "comps" \in enriched.applicable_methods
      elr == enriched.estimated_last_round
      resolved_last_round_date ==
        IF TruthyStr(last_round_date) THEN last_round_date
        ELSE IF elr # None /\ elr[1].estimated_date # ""
             THEN Some(elr[1].estimated_date)
        ELSE None
      want_index == "last_round" \in enriched.applicable_methods
                    /\ TruthyStr(index_ticker) /\ resolved_last_round_date # None
  IN  IF market.fails /\ (want_comps \/ want_index) THEN Raise("ConnectionError")
      ELSE Return([comparables |->
                     IF want_comps
                     THEN fetch_comparable_data(market, enriched.comparable_tickers)
                     ELSE <<>>,
                   index_data |-> IF want_index THEN market.index ELSE None])

\* MarketData()
EmptyMarketData == [comparables |-> <<>>, index_data |-> None]

(***************************************************************************)
(* backend/pipeline/step_valuate.py                                        *)
(***************************************************************************)
\* the pydantic defaults of FinancialProjections (models/request.py)
DefaultProjections(revenue_projections, ebitda_margins, wacc, tgr) ==
  [revenue_projections |-> revenue_projections,
   ebitda_margins |-> ebitda_margins,
   capex_percent |-> Pct(5),
   nwc_change_percent |-> Pct(2),
   tax_rate |-> Pct(25),
   wacc |-> wacc,
   terminal_growth_rate |-> tgr,
   depreciation_percent |-> N(0)]

\* lines 30-34: rev = rev * (1 + rate), compounding from base_revenue
RECURSIVE CompoundRevenue(_, _)
CompoundRevenue(base_revenue, growth_rates) ==
  IF growth_rates = <<>> THEN <<>>
  ELSE LET rev == RMul(base_revenue, RAdd(N(1), Head(growth_rates)))
       IN  <<rev>> \o CompoundRevenue(rev, Tail(growth_rates))

\* lines 37-38: the list estimated_ebitda_margins after the padding loop, which
\* appends to the caller's list in place
RECURSIVE PadMargins(_, _)
PadMargins(margins, n) ==
  IF Len(margins) >= n THEN margins
  ELSE PadMargins(Append(margins,
                         IF margins # <<>> THEN margins[Len(margins)] ELSE Pct(20)),
                  n)

\* _build_estimated_projections(base_revenue, estimated)
BuildEstimatedProjections(base_revenue, estimated) ==
  LET revenue_projections == CompoundRevenue(base_revenue, estimated.estimated_growth_rates)
      margins == PadMargins(estimated.estimated_ebitda_margins, Len(revenue_projections))
  IN  DefaultProjections(revenue_projections,
                         SubSeq(margins, 1, Len(revenue_projections)),
                         estimated.estimated_wacc,
                         estimated.estimated_terminal_growth_rate)

\* _identify_missing(request, enriched, resolved_revenue, market_data)
IdentifyMissing(enriched, resolved_revenue, market_data) ==
  LET llm_failed == enriched.enrichment_notes # None
                    /\ enriched.enrichment_notes[1] =
                         "Fallback: LLM enrichment unavailable, using raw inputs"
  IN  (IF ~Truthy(resolved_revenue)
       THEN (IF llm_failed
             THEN <<"Revenue: No annual revenue provided. Web research could not run">>
             ELSE <<"Revenue: No annual revenue provided, and web research could not determine it">>)
       ELSE <<>>)
      \o (IF Truthy(resolved_revenue) /\ Len(market_data.comparables) = 0
          THEN <<"Comparable companies: no comparable company data could be fetched">>
          ELSE <<>>)

\* _check_mismatches, lines 57-97: the warnings appended to the DCF result.
\* The differences and quotients are those of the doubles: 0.12 - 0.10 is
\* below 0.02 there.
DcfMismatchWarnings(request, enriched) ==
  LET fp == request.financial_projections[1]
      ep == enriched.estimated_projections[1]
      user_revs == fp.revenue_projections
      idx == {i \in 2..Len(user_revs) : RPos(user_revs[i - 1])}
      RECURSIVE Rates(_)
      Rates(i) == IF i > Len(user_revs) THEN <<>>
                  ELSE (IF i \in idx
                        THEN <<FSub(FDiv(Double(user_revs[i]), Double(user_revs[i - 1])),
                                    Double(N(1)))>>
                        ELSE <<>>) \o Rates(i + 1)
      user_growth_rates == Rates(2)
      \* lines 91-92: sum(values) / len(values)
      FMean(values) == FDiv(FSum(values), Double(N(Len(values))))
      avg_user == FMean(user_growth_rates)
      avg_est  == FMean([i \in 1..Len(ep.estimated_growth_rates) |->
                          Double(ep.estimated_growth_rates[i])])
      dist(a, b) == FAbs(FSub(Double(a), Double(b)))
  IN  (IF FLe(Double(Pct(2)), dist(fp.wacc, ep.estimated_wacc))
       THEN <<"WACC mismatch">> ELSE <<>>)
      \o (IF FLe(Double(Pct(1)),
                 dist(fp.terminal_growth_rate, ep.estimated_terminal_growth_rate))
          THEN <<"Terminal growth rate mismatch">> ELSE <<>>)
      \o (IF Len(user_revs) >= 2 /\ user_growth_rates # <<>> /\ avg_est # FZero
             /\ FLt(Double(Pct(20)), FDiv(FAbs(FSub(avg_user, avg_est)), FAbs(avg_est)))
          THEN <<"Growth rate mismatch">> ELSE <<>>)

\* _check_mismatches: the results with the mismatch warnings appended
CheckMismatches(request, enriched, dcf_result, last_round_result) ==
  LET ep  == enriched.estimated_projections
      elr == enriched.estimated_last_round
      dcf_on == request.financial_projections # None /\ ep # None
                /\ ep[1].estimated_growth_rates # <<>> /\ dcf_result # None
      lr_on  == request.last_round_valuation # None /\ elr # None
                /\ RPos(elr[1].estimated_valuation) /\ last_round_result # None
      user_val == request.last_round_valuation[1]
      est_val  == elr[1].estimated_valuation
      diff == FAbs(FSub(Double(user_val), Double(est_val)))
  IN  [dcf |-> IF dcf_on
               THEN Some([dcf_result[1] EXCEPT
                            !.warnings = @ \o DcfMismatchWarnings(request, enriched)])
               ELSE dcf_result,
       last_round |->
         IF lr_on /\ FLt(Double(Pct(30)), FDiv(diff, Double(est_val)))
         THEN Some([last_round_result[1] EXCEPT
                      !.warnings = @ \o <<"Last round valuation mismatch">>])
         ELSE last_round_result]

\* lines 125-174: what run_valuations resolves before it runs a method.  The
\* field enriched is the caller's EnrichedInput after the resolution: the
\* margins list of its estimated projections is padded in place.
ResolveInputs(request, enriched0) ==
  LET ef == enriched0.estimated_financials
      use_est_revenue == request.revenue = None /\ ef # None
                         /\ Truthy(ef[1].estimated_revenue)
                         /\ RPos(ef[1].estimated_revenue[1])
      revenue == IF use_est_revenue THEN ef[1].estimated_revenue ELSE request.revenue
      elr == enriched0.estimated_last_round
      last_round_is_estimated ==
        (request.last_round_valuation = None \/ request.last_round_date = None)
        /\ elr # None /\ RPos(elr[1].estimated_valuation) /\ elr[1].estimated_date # ""
      ep == enriched0.estimated_projections
      dcf_is_estimated == request.financial_projections = None /\ ep # None
                          /\ Truthy(revenue) /\ ep[1].estimated_growth_rates # <<>>
  IN  [revenue |-> revenue,
       revenue_is_estimated |-> use_est_revenue,
       last_round_valuation |-> IF last_round_is_estimated
                                THEN Some(elr[1].estimated_valuation)
                                ELSE request.last_round_valuation,
       last_round_date |-> IF last_round_is_estimated
                           THEN Some(elr[1].estimated_date)
                           ELSE request.last_round_date,
       last_round_is_estimated |-> last_round_is_estimated,
       financial_projections |->
         IF dcf_is_estimated THEN Some(BuildEstimatedProjections(revenue[1], ep[1]))
         ELSE request.financial_projections,
       dcf_is_estimated |-> dcf_is_estimated,
       enriched |->
         IF dcf_is_estimated
         THEN [enriched0 EXCEPT !.estimated_projections =
                 Some([ep[1] EXCEPT !.estimated_ebitda_margins =
                         PadMargins(@, Len(ep[1].estimated_growth_rates))])]
         ELSE enriched0]

\* Fault variant of CanRun: the DCF runs whenever projections are resolved,
\* whether or not the enrichment lists it
CanRunDcfUnlisted(r, market_data) ==
  (IF "comps" \in r.enriched.applicable_methods /\ Truthy(r.revenue)
      /\ Len(market_data.comparables) > 0
   THEN {"comps"} ELSE {})
  \cup (IF r.financial_projections # None THEN {"dcf"} ELSE {})
  \cup (IF "last_round" \in r.enriched.applicable_methods
           /\ r.last_round_valuation # None /\ RPos(r.last_round_valuation[1])
           /\ r.last_round_date # None
        THEN {"last_round"} ELSE {})

\* lines 177-184: the methods whose can_run_* flag is true
CanRun(r, market_data) ==
  (IF "comps" \in r.enriched.applicable_methods /\ Truthy(r.revenue)
      /\ Len(market_data.comparables) > 0
   THEN {"comps"} ELSE {})
  \cup (IF "dcf" \in r.enriched.applicable_methods /\ r.financial_projections # None
        THEN {"dcf"} ELSE {})
  \cup (IF "last_round" \in r.enriched.applicable_methods
           /\ r.last_round_valuation # None /\ RPos(r.last_round_valuation[1])
           /\ r.last_round_date # None
        THEN {"last_round"} ELSE {})

\* `result.warnings.append(text)`
WithWarning(result, text) == [result EXCEPT !.warnings = @ \o <<text>>]

\* lines 203-212: the comps method
RunComps(r, market_data) ==
  IF r.revenue_is_estimated
  THEN WithWarning(ComputeCompsValuation(r.revenue[1], market_data.comparables,
                                         Some(r.enriched.sector)),
                   "Revenue source: LLM estimate")
  ELSE ComputeCompsValuation(r.revenue[1], market_data.comparables,
                             Some(r.enriched.sector))

\* lines 217-226: the DCF method, the call that may raise
RunDcf(r) == ComputeDcfValuation(r.financial_projections[1])

\* lines 231-243: the last-round method
RunLastRound(r, market_data) ==
  IF r.last_round_is_estimated
  THEN WithWarning(ComputeLastRoundValuation(r.last_round_valuation[1],
                                             r.last_round_date[1],
                                             market_data.index_data),
                   ModelEstimatedLastRoundWarning)
  ELSE ComputeLastRoundValuation(r.last_round_valuation[1], r.last_round_date[1],
                                 market_data.index_data)

\* Fault variant of MethodExceptionCaught: the handler is narrowed to
\* ValueError
MethodExceptionCaughtOnlyValueError(exc) == exc = "ValueError"

\* lines 213, 227, 244: `except Exception` around each method's computation
\* catches whatever the computation raises
MethodExceptionCaught(exc) == TRUE

\* lines 216-228: dcf_result after the try block
DcfResult(r, can_run, dcf_call) ==
  IF "dcf" \notin can_run \/ dcf_call.raises THEN None
  ELSE IF r.dcf_is_estimated
       THEN Some(WithWarning(dcf_call.value, ModelEstimatedDcfWarning))
  ELSE Some(dcf_call.value)

\* lines 248-262: blend, and raise when the blend is worth nothing
BlendOrRaise(r, market_data, blended) ==
  IF RZero(blended.fair_value)
  THEN [raises |-> TRUE, exc |-> "InsufficientDataError",
        missing_fields |-> IdentifyMissing(r.enriched, r.revenue, market_data)]
  ELSE [raises |-> FALSE, value |-> blended]

\* lines 248-250: the mismatch warnings are appended, then the blend
BlendChecked(comps_result, checked) ==
  ComputeBlendedValuation(comps_result, checked.dcf, checked.last_round, None)

\* lines 186-262: the outcome from the runnable methods and what the DCF
\* call did
RunMethods(request, market_data, r, can_run, dcf_call) ==
  IF can_run = {}
  THEN [raises |-> TRUE, exc |-> "InsufficientDataError",
        missing_fields |-> IdentifyMissing(r.enriched, r.revenue, market_data)]
  ELSE IF "dcf" \in can_run /\ dcf_call.raises /\ ~MethodExceptionCaught(dcf_call.exc)
  THEN [raises |-> TRUE, exc |-> dcf_call.exc, missing_fields |-> <<>>]
  ELSE BlendOrRaise(r, market_data,
         BlendChecked(
           IF "comps" \in can_run THEN Some(RunComps(r, market_data)) ELSE None,
           CheckMismatches(request, r.enriched,
                           DcfResult(r, can_run, dcf_call),
                           IF "last_round" \in can_run
                           THEN Some(RunLastRound(r, market_data)) ELSE None)))

\* what the call did besides returning or raising: the methods it ran, those
\* whose computation raised, and the caller's EnrichedInput after the call
Did(r, can_run, dcf_call) ==
  [can_run |-> can_run,
   method_raised |-> IF "dcf" \in can_run /\ dcf_call.raises THEN {"dcf"} ELSE {},
   enriched |-> r.enriched]

RunCanRun(request, market_data, r, can_run) ==
  Did(r, can_run, RunDcf(r)) @@ RunMethods(request, market_data, r, can_run, RunDcf(r))

RunResolved(request, market_data, r) ==
  RunCanRun(request, market_data, r, CanRun(r, market_data))

\* run_valuations(request, enriched, market_data)
RunValuations(request, enriched0, market_data) ==
  RunResolved(request, market_data, ResolveInputs(request, enriched0))

(***************************************************************************)
(* The inputs of a run.  Amounts are small so that the exact arithmetic    *)
(* stays small; only their signs, ratios and equalities matter to the code.*)
(***************************************************************************)
\* a FinancialProjections the DCF accepts (two years, defaults elsewhere)
GoodProjections ==
  DefaultProjections(<<N(110), N(121)>>, <<Pct(20), Pct(20)>>, Pct(12), Pct(3))

\* a FinancialProjections with revenues but no margins: ebitda_margins[-1]
\* raises IndexError inside compute_dcf_valuation
MarginlessProjections ==
  DefaultProjections(<<N(110)>>, <<>>, Pct(12), Pct(3))

\* ValuationRequest (models/request.py), the fields the pipeline reads
Requests ==
  { [revenue |-> revenue,
     ebitda |-> None,
     sector |-> Some("Technology"),
     comparable_tickers |-> tickers,
     financial_projections |-> fp,
     last_round_valuation |-> lr[1],
     last_round_date |-> lr[2],
     index_ticker |-> Some("^IXIC")] :
      revenue \in {None, Some(N(0)), Some(N(100))},
      tickers \in {None, Some(<<"AAA", "BBB">>)},
      fp \in {None, Some(GoodProjections), Some(MarginlessProjections)},
      lr \in { <<None, None>>,
               <<Some(N(50)), Some("2024-07-05")>>,
               <<Some(N(50)), None>> } }

\* an EnrichedInput as the language model answers it
Response(tickers, methods, ef, ep, elr) ==
  [sector |-> "Technology",
   comparable_tickers |-> tickers,
   applicable_methods |-> methods,
   estimated_financials |-> ef,
   estimated_projections |-> ep,
   estimated_last_round |-> elr,
   research_sources |-> <<>>,
   enrichment_notes |-> Some("Selected by sector")]

NoResearch == [text |-> "", sources |-> <<>>, financials |-> None]

EstimatedRevenue == [estimated_revenue |-> Some(N(100))]

\* the behaviours of the language-model collaborator during enrich
LLMs ==
  { [fails |-> TRUE, research |-> NoResearch,
     response |-> Response(<<>>, {}, None, None, None)],
    [fails |-> FALSE, research |-> NoResearch,
     response |-> Response(<<"AAA">>, Methods, None, None, None)],
    [fails |-> FALSE,
     research |-> [text |-> "revenue of $100", sources |-> <<"src">>,
                   financials |-> Some(EstimatedRevenue)],
     response |-> Response(<<"BBB", "AAA">>, {"comps"}, None, None, None)],
    [fails |-> FALSE, research |-> NoResearch,
     response |-> Response(<<"BBB">>, {"comps"}, None, None, None)],
    [fails |-> FALSE, research |-> NoResearch,
     response |-> Response(<<"BBB">>, {}, Some(EstimatedRevenue),
                           Some([estimated_growth_rates |-> <<Pct(10)>>,
                                 estimated_ebitda_margins |-> <<>>,
                                 estimated_wacc |-> Pct(12),
                                 estimated_terminal_growth_rate |-> Pct(3)]),
                           Some([estimated_valuation |-> N(50),
                                 estimated_date |-> "2023-01-12"]))],
    [fails |-> FALSE, research |-> NoResearch,
     response |-> Response(<<"CCC">>, {"dcf", "last_round"}, None,
                           Some([estimated_growth_rates |-> <<Pct(10)>>,
                                 estimated_ebitda_margins |-> <<Pct(20)>>,
                                 estimated_wacc |-> Pct(10),
                                 estimated_terminal_growth_rate |-> Pct(3)]),
                           Some([estimated_valuation |-> N(100),
                                 estimated_date |-> "2024-07-05"]))] }

\* CompanyFinancials (models/market_data.py)
Company(ticker, revenue, ev_to_revenue) ==
  [ticker |-> ticker,
   market_cap |-> Some(N(300)),
   enterprise_value |-> Some(N(200)),
   revenue |-> Some(revenue),
   ebitda |-> None,
   ev_to_revenue |-> Some(ev_to_revenue),
   ev_to_ebitda |-> None,
   sector |-> Some("Technology")]

\* what the market-data collaborator knows: AAA is the size of the target,
\* BBB a thousand times larger, CCC unknown
MarketTable ==
  [t \in {"AAA", "BBB", "CCC"} |->
     CASE t = "AAA" -> Some(Company("AAA", N(100), N(2)))
       [] t = "BBB" -> Some(Company("BBB", N(100000), N(3)))
       [] t = "CCC" -> None]

\* the behaviours of the market-data collaborator during fetch
Markets ==
  { [fails |-> TRUE, table |-> MarketTable, index |-> None],
    [fails |-> FALSE, table |-> MarketTable, index |-> None],
    [fails |-> FALSE, table |-> MarketTable,
     index |-> Some([return_since_round |-> Some(Pct(10))])] }

\* the weights a reweight request may carry: dict[str, float]
WeightChoices ==
  { <<[method |-> "comps", weight |-> N(1)]>>,
    <<[method |-> "dcf", weight |-> N(1)]>>,
    <<[method |-> "comps", weight |-> N(1)], [method |-> "last_round", weight |-> N(3)]>>,
    <<[method |-> "last_round", weight |-> N(0)]>> }

(***************************************************************************)
(* backend/pipeline/orchestrator.py: one call of ValuationPipeline.run,    *)
(* with the reweight request of api/routes.py served from the same store.  *)
(* The run is cut at its status changes; pc names the next one.  Between   *)
(* two positions that are not separated by an await on a collaborator the  *)
(* event loop runs nothing else.                                           *)
(***************************************************************************)
VARIABLES
  request,        \* the ValuationRequest of the run
  has_status,     \* whether run was given a PipelineStatus
  pc,             \* position of the run
  steps,          \* the list `steps` of PipelineStep: [step_name, status, error]
  events,         \* PipelineStatus.events: [step_name, status]
  complete,       \* PipelineStatus.complete
  enriched,       \* Optional[EnrichedInput]
  market_data,    \* Optional[MarketData]
  blended,        \* Optional[BlendedValuation]
  error_message,  \* Optional[str]
  missing_data,   \* list[str]
  narrative,      \* Optional[str]
  report,         \* the ValuationReport once assembled
  returned,       \* what run returned to its caller
  raised,         \* the exception run propagated to its caller
  db,             \* the stored report_json of the run's id
  llm,            \* how the language model behaved during enrich
  market,         \* how the market-data service behaved during fetch
  valuation,      \* what the call of run_valuations did
  reweights,      \* reweight requests served
  reweighted      \* what update_weights returned to the latest reweight request

\* compute_blended_valuation called on its own
VARIABLES
  arg_comps,           \* Optional[CompsResult]
  arg_dcf,             \* Optional[DCFResult]
  arg_last_round,      \* Optional[LastRoundResult]
  arg_custom_weights,  \* Optional[dict[str, float]]
  blend_result         \* what the call returned, once it was made

\* one PipelineStatus, its producer and its consumer
VARIABLES
  bus_events,     \* PipelineStatus.events, the events numbered as emitted
  bus_complete,   \* PipelineStatus.complete
  bus_index,      \* PipelineStatus._event_index, the read cursor
  bus_event_set,  \* whether the asyncio.Event that _event names now is set
  consumer_pc,    \* "idle", or "blocked" inside wait_for_event
  consumer_woken, \* whether the asyncio.Event the consumer waits on is set
  calls           \* the calls of wait_for_event that returned, in order

\* runs that share the services of get_pipeline()
VARIABLES
  run_pc,         \* position of each run
  call_logs,      \* LLMService.call_logs of the shared service
  run_calls,      \* the language-model calls each run made
  run_attempt,    \* the attempts of its structured call each run has finished
  run_logs        \* llm_call_logs of the report of each run, once assembled

\* one call of a function of the valuation package on its own
VARIABLES
  fn_input,       \* the arguments of the call
  fn_output       \* what the call returned, once it was made

\* a stream consumer of the PipelineStatus above and the status registry
VARIABLES
  pipeline_task,  \* whether create_valuation_async has created the task of the run
  registry,       \* whether _statuses holds the entry of the run
  stream_pc,      \* position of event_generator
  stream_batch,   \* the events wait_for_event returned that are not yet forwarded
  sent            \* the messages event_generator has yielded, in order

runVars == <<request, has_status, pc, steps, events, complete, enriched, market_data,
             blended, error_message, missing_data, narrative, report, returned,
             raised, db, llm, market, valuation, reweights, reweighted>>

blendVars == <<arg_comps, arg_dcf, arg_last_round, arg_custom_weights, blend_result>>

busVars == <<bus_events, bus_complete, bus_index, bus_event_set, consumer_pc,
             consumer_woken, calls>>

runsVars == <<run_pc, call_logs, run_calls, run_attempt, run_logs>>

fnVars == <<fn_input, fn_output>>

streamVars == <<pipeline_task, registry, stream_pc, stream_batch, sent>>

vars == <<runVars, blendVars, busVars, runsVars, fnVars, streamVars>>

\* no function has been called on its own
FnIdle ==
  /\ fn_input = None
  /\ fn_output = None

\* no stream has been opened and no status has been registered
StreamIdle ==
  /\ pipeline_task = FALSE
  /\ registry = FALSE
  /\ stream_pc = "idle"
  /\ stream_batch = <<>>
  /\ sent = <<>>

\* Fault variant of Emit: the new event is put in front of the log
EmitAtFront(log, step_name, status) ==
  IF has_status THEN <<[step_name |-> step_name, status |-> status]>> \o log ELSE log

\* status.emit(step_name, status) under `if status:`
Emit(log, step_name, status) ==
  IF has_status THEN Append(log, [step_name |-> step_name, status |-> status]) ELSE log

\* Fault variant of Step: the record keeps the status it was created with
StepLeftRunning(step_name, status, error) == [step_name |-> step_name, status |-> "running", error |-> error]

Step(step_name, status, error) ==
  [step_name |-> step_name, status |-> status, error |-> error]

\* Fault variant of StepExceptionCaught: the handler is narrowed so that a
\* database error is not caught
StepExceptionCaughtExceptDb(exc) == exc # "OperationalError"

\* _run_step, line 222: `except Exception` catches whatever the step raises
StepExceptionCaught(exc) == TRUE

\* _run_step, lines 207-211: the step is running and announced
StartStep(step_name, wait) ==
  /\ events' = Emit(events, step_name, "started")
  /\ pc' = wait

\* Fault variant of FinishStep: the except branch records the failed step but
\* emits no status
FinishStepSilentFailure(step_name, call, next) ==
  /\ steps' = Append(steps,
                IF call.raises THEN Step(step_name, "failed", Some(call.exc))
                ELSE Step(step_name, "completed", None))
  /\ events' = IF call.raises THEN events ELSE Emit(events, step_name, "completed")
  /\ pc' = next
  /\ UNCHANGED raised

\* _run_step, lines 212-231: the step function has returned or raised
FinishStep(step_name, call, next) ==
  IF call.raises /\ ~StepExceptionCaught(call.exc)
  THEN /\ raised' = Some(call.exc)
       /\ pc' = "raised"
       /\ UNCHANGED <<steps, events>>
  ELSE /\ steps' = Append(steps,
                     IF call.raises THEN Step(step_name, "failed", Some(call.exc))
                     ELSE Step(step_name, "completed", None))
       /\ events' = Emit(events, step_name,
                         IF call.raises THEN "failed" ELSE "completed")
       /\ pc' = next
       /\ UNCHANGED raised

\* the value _run_step returns
StepResult(call) == IF call.raises THEN None ELSE Some(call.value)

\* no call of compute_blended_valuation on its own
BlendIdle ==
  /\ arg_comps = None
  /\ arg_dcf = None
  /\ arg_last_round = None
  /\ arg_custom_weights = None
  /\ blend_result = None

\* PipelineStatus(report_id) as the dataclass constructs it, and a consumer
\* that has not called yet
BusIdle ==
  /\ bus_events = <<>>
  /\ bus_complete = FALSE
  /\ bus_index = 0
  /\ bus_event_set = FALSE
  /\ consumer_pc = "idle"
  /\ consumer_woken = FALSE
  /\ calls = <<>>

\* no run has been started on the shared services
RunsIdle ==
  /\ run_pc = <<>>
  /\ call_logs = <<>>
  /\ run_calls = <<>>
  /\ run_attempt = <<>>
  /\ run_logs = <<>>

\* no run of the pipeline
RunIdle ==
  /\ request = None
  /\ has_status = FALSE
  /\ pc = "idle"
  /\ steps = <<>>
  /\ events = <<>>
  /\ complete = FALSE
  /\ enriched = None
  /\ market_data = None
  /\ blended = None
  /\ error_message = None
  /\ missing_data = <<>>
  /\ narrative = None
  /\ report = None
  /\ returned = None
  /\ raised = None
  /\ db = None
  /\ llm = None
  /\ market = None
  /\ valuation = None
  /\ reweights = 0
  /\ reweighted = None

Init ==
  /\ request \in Requests
  /\ has_status \in BOOLEAN
  /\ pc = "validate"
  /\ steps = <<>>
  /\ events = <<>>
  /\ complete = FALSE
  /\ enriched = None
  /\ market_data = None
  /\ blended = None
  /\ error_message = None
  /\ missing_data = <<>>
  /\ narrative = None
  /\ report = None
  /\ returned = None
  /\ raised = None
  /\ db = None
  /\ llm = None
  /\ market = None
  /\ valuation = None
  /\ reweights = 0
  /\ reweighted = None
  /\ BlendIdle
  /\ BusIdle
  /\ RunsIdle
  /\ FnIdle
  /\ StreamIdle

\* Fault variant of Validate: the validate step is announced but not recorded
ValidateUnrecorded ==
  /\ pc = "validate"
  /\ events' = Emit(events, "validate", "completed")
  /\ pc' = "enrich"
  /\ UNCHANGED <<request, has_status, steps, complete, enriched, market_data, blended,
                 error_message, missing_data, narrative, report, returned, raised,
                 db, llm, market, valuation, reweights>>
  /\ UNCHANGED <<reweighted, blendVars, busVars, runsVars, fnVars, streamVars>>

\* lines 36-66: the validate step is recorded completed
Validate ==
  /\ pc = "validate"
  /\ steps' = Append(steps, Step("validate", "completed", None))
  /\ events' = Emit(events, "validate", "completed")
  /\ pc' = "enrich"
  /\ UNCHANGED <<request, has_status, complete, enriched, market_data, blended,
                 error_message, missing_data, narrative, report, returned, raised,
                 db, llm, market, valuation, reweights>>
  /\ UNCHANGED <<reweighted, blendVars, busVars, runsVars, fnVars, streamVars>>

\* line 69: enrich starts and awaits the language model
EnrichStart ==
  /\ pc = "enrich"
  /\ StartStep("enrich", "enrich_wait")
  /\ UNCHANGED <<request, has_status, steps, complete, enriched, market_data,
                 blended, error_message, missing_data, narrative, report,
                 returned, raised, db, llm, market, valuation, reweights>>
  /\ UNCHANGED <<reweighted, blendVars, busVars, runsVars, fnVars, streamVars>>

\* _enrich(request): enrich_input, or fallback_enrich when it raises
_enrich(req, l) ==
  LET call == enrich_input(req, l)
  IN  IF call.raises THEN Return(fallback_enrich(req)) ELSE call

\* line 69: the language model has answered or failed
EnrichFinish ==
  /\ pc = "enrich_wait"
  /\ \E l \in LLMs :
       \E call \in {_enrich(request, l)} :
           /\ llm' = Some(l)
           /\ enriched' = StepResult(call)
           /\ FinishStep("enrich", call, "fetch")
  /\ UNCHANGED <<request, has_status, complete, market_data, blended,
                 error_message, missing_data, narrative, report, returned, db,
                 market, valuation, reweights>>
  /\ UNCHANGED <<reweighted, blendVars, busVars, runsVars, fnVars, streamVars>>

\* line 111: fetch starts and awaits the market-data service
FetchStart ==
  /\ pc = "fetch"
  /\ StartStep("fetch", "fetch_wait")
  /\ UNCHANGED <<request, has_status, steps, complete, enriched, market_data,
                 blended, error_message, missing_data, narrative, report,
                 returned, raised, db, llm, market, valuation, reweights>>
  /\ UNCHANGED <<reweighted, blendVars, busVars, runsVars, fnVars, streamVars>>

\* _fetch(enriched, request)
_fetch(enr, req, m) ==
  fetch_market_data(IF enr = None THEN fallback_enrich(req) ELSE enr[1],
                    req.index_ticker, req.last_round_date, m)

\* lines 111-113: the market-data service has answered or failed
FetchFinish ==
  /\ pc = "fetch_wait"
  /\ \E m \in Markets :
       \E call \in {_fetch(enriched, request, m)} :
           /\ market' = Some(m)
           /\ market_data' = StepResult(call)
           /\ FinishStep("fetch", call, "valuate")
  /\ UNCHANGED <<request, has_status, complete, enriched, blended,
                 error_message, missing_data, narrative, report, returned, db,
                 llm, valuation, reweights>>
  /\ UNCHANGED <<reweighted, blendVars, busVars, runsVars, fnVars, streamVars>>

\* _valuate(request, enriched, market_data)
_valuate(req, enr, md) ==
  RunValuations(req,
                IF enr = None THEN fallback_enrich(req) ELSE enr[1],
                IF md = None THEN EmptyMarketData ELSE md[1])

\* str(e) of an InsufficientDataError and the message of line 147
InsufficientDataMessage == "Insufficient data to perform valuation"
UnexpectedErrorMessage == "Valuation step encountered an unexpected error"

\* lines 120-123: the valuate step is running and announced
ValuateStart ==
  /\ pc = "valuate"
  /\ StartStep("valuate", "valuate_run")
  /\ UNCHANGED <<request, has_status, steps, complete, enriched, market_data,
                 blended, error_message, missing_data, narrative, report,
                 returned, raised, db, llm, market, valuation, reweights>>
  /\ UNCHANGED <<reweighted, blendVars, busVars, runsVars, fnVars, streamVars>>

\* lines 124-151: the valuate step, which does not await
Valuate ==
  /\ pc = "valuate_run"
  /\ \E v \in {_valuate(request, enriched, market_data)} :
         /\ valuation' = Some(v)
         \* run_valuations pads the margins list of the object `enriched` names
         /\ enriched' = IF enriched = None THEN None ELSE Some(v.enriched)
         /\ IF ~v.raises
            THEN /\ blended' = Some(v.value)
                 /\ steps' = Append(steps, Step("valuate", "completed", None))
                 /\ events' = Emit(events, "valuate", "completed")
                 /\ UNCHANGED <<error_message, missing_data>>
            ELSE IF v.exc = "InsufficientDataError"
            THEN /\ steps' = Append(steps, Step("valuate", "failed",
                                                Some(InsufficientDataMessage)))
                 /\ error_message' = Some(InsufficientDataMessage)
                 /\ missing_data' = v.missing_fields
                 /\ events' = Emit(events, "valuate", "failed")
                 /\ UNCHANGED blended
            ELSE /\ steps' = Append(steps, Step("valuate", "failed", Some(v.exc)))
                 /\ error_message' = Some(UnexpectedErrorMessage)
                 /\ events' = Emit(events, "valuate", "failed")
                 /\ UNCHANGED <<blended, missing_data>>
  /\ pc' = "narrate"
  /\ UNCHANGED <<request, has_status, complete, market_data, narrative, report,
                 returned, raised, db, llm, market, reweights>>
  /\ UNCHANGED <<reweighted, blendVars, busVars, runsVars, fnVars, streamVars>>

\* Fault variant of HasPositiveValue: narrate runs whatever valuate produced
NarrateAlways(b) == TRUE

\* line 155
HasPositiveValue(b) == b # None /\ RPos(b[1].fair_value)

\* lines 155-158: narrate starts and awaits the language model
NarrateStart ==
  /\ pc = "narrate"
  /\ HasPositiveValue(blended)
  /\ StartStep("narrate", "narrate_wait")
  /\ UNCHANGED <<request, has_status, steps, complete, enriched, market_data,
                 blended, error_message, missing_data, narrative, report,
                 returned, raised, db, llm, market, valuation, reweights>>
  /\ UNCHANGED <<reweighted, blendVars, busVars, runsVars, fnVars, streamVars>>

\* Fault variant of NarrateSkip: a run without a valuation returns at once,
\* without persisting
NarrateSkipReturns ==
  /\ pc = "narrate"
  /\ ~(blended # None /\ RPos(blended[1].fair_value))
  /\ steps' = Append(steps, Step("narrate", "skipped",
                                 Some("Skipped: no valuation results to narrate")))
  /\ events' = Emit(events, "narrate", "skipped")
  /\ pc' = "return"
  /\ UNCHANGED <<request, has_status, complete, enriched, market_data, blended,
                 error_message, missing_data, narrative, report, returned, raised,
                 db, llm, market, valuation, reweights>>
  /\ UNCHANGED <<reweighted, blendVars, busVars, runsVars, fnVars, streamVars>>

\* lines 159-166: narrate is recorded skipped
NarrateSkip ==
  /\ pc = "narrate"
  /\ ~HasPositiveValue(blended)
  /\ steps' = Append(steps, Step("narrate", "skipped",
                                 Some("Skipped: no valuation results to narrate")))
  /\ events' = Emit(events, "narrate", "skipped")
  /\ pc' = "persist"
  /\ UNCHANGED <<request, has_status, complete, enriched, market_data, blended,
                 error_message, missing_data, narrative, report, returned, raised,
                 db, llm, market, valuation, reweights>>
  /\ UNCHANGED <<reweighted, blendVars, busVars, runsVars, fnVars, streamVars>>

\* _narrate(request, blended, assumptions): the model's text, or
\* fallback_narrative(blended) when text_completion raises
_narrate(text_completion_raises) ==
  Return(IF text_completion_raises THEN "fallback narrative" ELSE "narrative")

\* lines 156-158: the language model has answered or failed
NarrateFinish ==
  /\ pc = "narrate_wait"
  /\ \E text_completion_raises \in BOOLEAN :
       LET call == _narrate(text_completion_raises)
       IN  /\ narrative' = StepResult(call)
           /\ FinishStep("narrate", call, "persist")
  /\ UNCHANGED <<request, has_status, complete, enriched, market_data, blended,
                 error_message, missing_data, report, returned, db, llm, market,
                 valuation, reweights>>
  /\ UNCHANGED <<reweighted, blendVars, busVars, runsVars, fnVars, streamVars>>

\* Fault variant of BuildReport: the report is assembled without the error
\* message of the valuate step
BuildReportWithoutError ==
  [enriched_input |-> enriched,
   market_data_summary |-> market_data,
   blended_valuation |-> blended,
   narrative |-> narrative,
   error |-> None,
   missing_data |-> missing_data,
   pipeline_steps |-> steps]

\* lines 177-191: ValuationReport(...); pipeline_steps is validated into a
\* list of its own, holding the steps recorded so far
BuildReport ==
  [enriched_input |-> enriched,
   market_data_summary |-> market_data,
   blended_valuation |-> blended,
   narrative |-> narrative,
   error |-> error_message,
   missing_data |-> missing_data,
   pipeline_steps |-> steps]

\* DBService.save_report(report): session.merge + commit, or the driver raises
save_report(rep, commit_raises) ==
  IF commit_raises THEN Raise("OperationalError") ELSE Return(rep)

\* lines 168-194: the report is assembled, the persist step is running and
\* announced
PersistStart ==
  /\ pc = "persist"
  /\ report' = Some(BuildReport)
  /\ StartStep("persist", "persist_run")
  /\ UNCHANGED <<request, has_status, steps, complete, enriched, market_data,
                 blended, error_message, missing_data, narrative, returned,
                 raised, db, llm, market, valuation, reweights>>
  /\ UNCHANGED <<reweighted, blendVars, busVars, runsVars, fnVars, streamVars>>

\* line 194: the persist step saves the report; saving does not await
Persist ==
  /\ pc = "persist_run"
  /\ \E commit_raises \in BOOLEAN :
       \E call \in {save_report(report[1], commit_raises)} :
           /\ db' = IF call.raises THEN db ELSE Some(call.value)
           /\ FinishStep("persist", call, "return")
  /\ UNCHANGED <<request, has_status, complete, enriched, market_data, blended,
                 error_message, missing_data, narrative, report, returned, llm,
                 market, valuation, reweights>>
  /\ UNCHANGED <<reweighted, blendVars, busVars, runsVars, fnVars, streamVars>>

\* lines 196-204: status.mark_complete() and return report
ReturnReport ==
  /\ pc = "return"
  /\ complete' = has_status
  /\ returned' = report
  /\ pc' = "done"
  /\ UNCHANGED <<request, has_status, steps, events, enriched, market_data,
                 blended, error_message, missing_data, narrative, report, raised,
                 db, llm, market, valuation, reweights>>
  /\ UNCHANGED <<reweighted, blendVars, busVars, runsVars, fnVars, streamVars>>

\* Fault variant of update_weights: the blend is recomputed from the comps
\* result alone and the other stored results are dropped
update_weights_comps_only(stored, custom_weights) ==
  IF stored = None \/ stored[1].blended_valuation = None THEN stored
  ELSE Some([stored[1] EXCEPT !.blended_valuation =
               Some(ComputeBlendedValuation(stored[1].blended_valuation[1].comps_result,
                                            None, None, Some(custom_weights)))])

\* DBService.update_weights(report_id, custom_weights): the stored report after
\* the call
update_weights(stored, custom_weights) ==
  IF stored = None \/ stored[1].blended_valuation = None THEN stored
  ELSE LET bv == stored[1].blended_valuation[1]
           new_blended == ComputeBlendedValuation(bv.comps_result, bv.dcf_result,
                                                  bv.last_round_result,
                                                  Some(custom_weights))
       IN  Some([stored[1] EXCEPT !.blended_valuation = Some(new_blended)])

\* DBService.update_weights(report_id, custom_weights): what the call
\* returns, None or the report with the new blended valuation
update_weights_returns(stored, custom_weights) ==
  IF stored = None \/ stored[1].blended_valuation = None THEN None
  ELSE update_weights(stored, custom_weights)

\* the run is suspended on a collaborator, or over
Suspended == pc \in {"enrich_wait", "fetch_wait", "narrate_wait", "done", "raised"}

\* api/routes.py reweight_valuation, lines 349-359: served between the
\* steps of the event loop
Reweight ==
  /\ Suspended
  /\ reweights < MaxReweights
  /\ \E w \in WeightChoices :
       /\ db' = update_weights(db, w)
       /\ reweighted' = Some(update_weights_returns(db, w))
  /\ reweights' = reweights + 1
  /\ UNCHANGED <<request, has_status, pc, steps, events, complete, enriched,
                 market_data, blended, error_message, missing_data, narrative,
                 report, returned, raised, llm, market, valuation>>
  /\ UNCHANGED <<blendVars, busVars, runsVars, fnVars, streamVars>>

\* DBService.delete_report(report_id): the record is deleted with its audit
\* log and its call records and True is returned, or False without a record
delete_report(stored) == [stored |-> None, returns |-> stored # None]

\* api/routes.py delete_valuation, lines 380-389: served between the steps of
\* the event loop like the reweight request.  The request is answered
\* {"status": "deleted"} when delete_report returns True and 404 otherwise;
\* the answer is not kept in the state.
DeleteValuation ==
  /\ Suspended
  /\ db' = delete_report(db).stored
  /\ UNCHANGED <<request, has_status, pc, steps, events, complete, enriched,
                 market_data, blended, error_message, missing_data, narrative,
                 report, returned, raised, llm, market, valuation, reweights,
                 reweighted>>
  /\ UNCHANGED <<blendVars, busVars, runsVars, fnVars, streamVars>>

Next ==
  \/ Validate
  \/ EnrichStart
  \/ EnrichFinish
  \/ FetchStart
  \/ FetchFinish
  \/ ValuateStart
  \/ Valuate
  \/ NarrateStart
  \/ NarrateSkip
  \/ NarrateFinish
  \/ PersistStart
  \/ Persist
  \/ ReturnReport
  \/ Reweight
  \/ DeleteValuation

Spec == Init /\ [][Next]_vars

(***************************************************************************)
(* compute_blended_valuation called on its own, on results shaped as the   *)
(* helpers of tests/test_blender.py shape them.                            *)
(***************************************************************************)
\* _comps(ev, count)
CompsOf(ev, count) ==
  [method |-> "comps",
   enterprise_value |-> N(ev),
   ev_to_revenue_median |-> N(5),
   ev_to_revenue_mean |-> N(5),
   ev_to_ebitda_median |-> None,
   ev_to_ebitda_mean |-> None,
   comparable_count |-> count,
   comparables_used |-> [i \in 1..count |-> "A"],
   warnings |-> <<>>,
   comp_selection_scores |-> <<>>]

\* _dcf(ev), with the warnings of the result
DcfOf(ev, warnings) ==
  [method |-> "dcf",
   enterprise_value |-> N(ev),
   projected_fcfs |-> <<N(10), N(12), N(14)>>,
   terminal_value |-> N(100),
   discount_rate |-> Pct(12),
   terminal_growth_rate |-> Pct(3),
   warnings |-> warnings]

\* _last_round(ev, months), with the warnings of the result
LastRoundOf(ev, months, warnings) ==
  [method |-> "last_round",
   enterprise_value |-> N(ev),
   last_round_valuation |-> N(ev),
   index_return |-> None,
   adjustment_factor |-> N(1),
   months_since_round |-> months,
   warnings |-> warnings]

CompsArgs ==
  {None, Some(CompsOf(0, 3)), Some(CompsOf(100, 2)), Some(CompsOf(100, 3)),
   Some(CompsOf(100, 6))}

DcfArgs ==
  {None, Some(DcfOf(0, <<>>)), Some(DcfOf(-50, <<>>)), Some(DcfOf(200, <<>>)),
   Some(DcfOf(200, <<ModelEstimatedDcfWarning>>))}

LastRoundArgs ==
  {None,
   Some(LastRoundOf(0, Some(6), <<>>)),
   Some(LastRoundOf(100, Some(6), <<>>)),
   Some(LastRoundOf(100, Some(24), <<>>)),
   Some(LastRoundOf(100, None, <<>>)),
   Some(LastRoundOf(100, Some(6), <<ModelEstimatedLastRoundWarning>>)),
   Some(LastRoundOf(100, Some(24), <<ModelEstimatedLastRoundWarning>>))}

\* custom_weights: None, or a dict as the sequence of its items
CustomWeightArgs ==
  {None,
   Some(<<>>),
   Some(<<[method |-> "comps", weight |-> Pct(60)],
          [method |-> "dcf", weight |-> Pct(40)]>>),
   Some(<<[method |-> "comps", weight |-> N(3)],
          [method |-> "last_round", weight |-> N(1)]>>),
   Some(<<[method |-> "dcf", weight |-> N(1)]>>),
   Some(<<[method |-> "last_round", weight |-> N(0)]>>)}

BlendInit ==
  /\ RunIdle
  /\ BusIdle
  /\ RunsIdle
  /\ FnIdle
  /\ StreamIdle
  /\ arg_comps \in CompsArgs
  /\ arg_dcf \in DcfArgs
  /\ arg_last_round \in LastRoundArgs
  /\ arg_custom_weights \in CustomWeightArgs
  /\ blend_result = None

\* compute_blended_valuation(comps, dcf, last_round, custom_weights)
Blend ==
  /\ blend_result = None
  /\ blend_result' = Some(ComputeBlendedValuation(arg_comps, arg_dcf, arg_last_round,
                                                  arg_custom_weights))
  /\ UNCHANGED <<arg_comps, arg_dcf, arg_last_round, arg_custom_weights>>
  /\ UNCHANGED <<runVars, busVars, runsVars, fnVars, streamVars>>

BlendNext == Blend

BlendSpec == BlendInit /\ [][BlendNext]_vars

(***************************************************************************)
(* Concurrent runs on the shared services.  get_llm_service() is cached    *)
(* (api/dependencies.py 8-10), so every pipeline built by get_pipeline()   *)
(* holds the same LLMService and the same call_logs attribute.  A run      *)
(* yields to the event loop only inside its awaits, so each action below   *)
(* is one stretch of run() between two awaits.                             *)
(***************************************************************************)
\* the report identifiers of the two runs
ReportIds == {"r1", "r2"}

\* structured_completion(..., max_retries=2)
max_retries == 2

\* LLMCallLog(step_name=...) tagged with the run whose call produced it
LLMCallLog(report_id, step_name) == [run |-> report_id, step_name |-> step_name]

\* self.call_logs.append(...) for every record in logs; the run's own calls
\* are remembered in run_calls
AppendLogs(report_id, logs) ==
  /\ call_logs' = call_logs \o logs
  /\ run_calls' = [run_calls EXCEPT ![report_id] = @ \o logs]

\* what _research_company leaves in call_logs: nothing when no research is
\* needed or when both the search call and its fallback raise, one record
\* named after the call that answered otherwise
ResearchOutcomes == {"not_needed", "research", "research_fallback", "raise"}

RunsInit ==
  /\ RunIdle
  /\ BlendIdle
  /\ BusIdle
  /\ FnIdle
  /\ StreamIdle
  /\ run_pc = [r \in ReportIds |-> "idle"]
  /\ call_logs = <<>>
  /\ run_calls = [r \in ReportIds |-> <<>>]
  /\ run_attempt = [r \in ReportIds |-> 0]
  /\ run_logs = [r \in ReportIds |-> None]

\* run(): self.llm.call_logs = [], validate, up to the first await of enrich
RunStart(report_id) ==
  /\ run_pc[report_id] = "idle"
  /\ call_logs' = <<>>
  /\ run_pc' = [run_pc EXCEPT ![report_id] = "research"]
  /\ UNCHANGED <<run_calls, run_attempt, run_logs>>
  /\ UNCHANGED <<runVars, blendVars, busVars, fnVars, streamVars>>

\* enrich_input: await _research_company(request, llm) when research is needed
Research(report_id, outcome) ==
  /\ run_pc[report_id] = "research"
  /\ AppendLogs(report_id,
                IF outcome \in {"research", "research_fallback"}
                THEN <<LLMCallLog(report_id, outcome)>> ELSE <<>>)
  /\ run_pc' = [run_pc EXCEPT ![report_id] =
                  IF outcome = "raise" THEN "narrate" ELSE "structure"]
  /\ UNCHANGED <<run_attempt, run_logs>>
  /\ UNCHANGED <<runVars, blendVars, busVars, fnVars, streamVars>>

\* what an attempt of _structured_completion_sync meets: a response that
\* parses, a response that does not, or a create call that raises
AttemptOutcomes == {"valid", "invalid", "raise"}

\* enrich_input: await _structure_enrichment(...).  structured_completion
\* runs its loop in a worker thread (llm_service.py 116), so the other runs
\* go on between two attempts: one pass of the loop (lines 136-173) is one
\* step.  An attempt that got a response logs it before parsing; the call is
\* over when a response parses or after max_retries + 1 attempts, and the
\* run goes on to its next language-model call either way.
StructureAttempt(report_id, outcome) ==
  /\ run_pc[report_id] = "structure"
  /\ AppendLogs(report_id,
                IF outcome = "raise" THEN <<>> ELSE <<LLMCallLog(report_id, "enrich")>>)
  /\ IF outcome = "valid" \/ run_attempt[report_id] = max_retries
     THEN /\ run_pc' = [run_pc EXCEPT ![report_id] = "narrate"]
          /\ run_attempt' = [run_attempt EXCEPT ![report_id] = 0]
     ELSE /\ run_attempt' = [run_attempt EXCEPT ![report_id] = @ + 1]
          /\ UNCHANGED run_pc
  /\ UNCHANGED run_logs
  /\ UNCHANGED <<runVars, blendVars, busVars, fnVars, streamVars>>

\* fetch and valuate make no LLM call; narrate calls text_completion once
\* unless it is skipped, and the call logs only when it returns
NarrateCall(report_id, logged) ==
  /\ run_pc[report_id] = "narrate"
  /\ AppendLogs(report_id,
                IF logged THEN <<LLMCallLog(report_id, "narrate")>> ELSE <<>>)
  /\ run_pc' = [run_pc EXCEPT ![report_id] = "assemble"]
  /\ UNCHANGED <<run_attempt, run_logs>>
  /\ UNCHANGED <<runVars, blendVars, busVars, fnVars, streamVars>>

\* ValuationReport(..., llm_call_logs=list(self.llm.call_logs), ...)
Assemble(report_id) ==
  /\ run_pc[report_id] = "assemble"
  /\ run_logs' = [run_logs EXCEPT ![report_id] = Some(call_logs)]
  /\ run_pc' = [run_pc EXCEPT ![report_id] = "done"]
  /\ UNCHANGED <<call_logs, run_calls, run_attempt>>
  /\ UNCHANGED <<runVars, blendVars, busVars, fnVars, streamVars>>

RunsNext ==
  \/ \E report_id \in ReportIds : RunStart(report_id)
  \/ \E report_id \in ReportIds, outcome \in ResearchOutcomes : Research(report_id, outcome)
  \/ \E report_id \in ReportIds, outcome \in AttemptOutcomes : StructureAttempt(report_id, outcome)
  \/ \E report_id \in ReportIds, logged \in BOOLEAN : NarrateCall(report_id, logged)
  \/ \E report_id \in ReportIds : Assemble(report_id)

RunsSpec == RunsInit /\ [][RunsNext]_vars

(***************************************************************************)
(* PipelineStatus (services/pipeline_status.py) with its producer and one  *)
(* consumer.  The producer is the orchestrator, the only caller of emit    *)
(* and mark_complete: it emits step events and calls mark_complete once,   *)
(* as its last call.  The consumer calls wait_for_event again and again,   *)
(* as stream_pipeline does.  All three methods run on the event loop, so   *)
(* each is atomic up to the await inside wait_for_event.                   *)
(***************************************************************************)
\* the producer emits at most MaxEmits events and the consumer makes at most
\* MaxCalls calls
MaxEmits == 3
MaxCalls == 4

\* StepEvent(step_name, status, ...)
StepEvent(step_name, status) == [step_name |-> step_name, status |-> status]

\* the events a run emits for a step run through _run_step
BusStepNames == {"enrich"}
BusStatuses == {"started", "completed", "failed"}

\* a wait_for_event that hands out the whole log on every call
NewEventsFromStart(evts, index) == evts

\* self.events[self._event_index:]
NewEvents(evts, index) == SubSeq(evts, index + 1, Len(evts))

\* a set() that wakes nobody
EventSetLost(waiting, woken) == woken

\* self._event.set(): the Event the consumer waits on, if it waits, is set
EventSet(waiting, woken) == woken \/ waiting

\* the record of a wait_for_event call: whether mark_complete had been called
\* and whether events were pending when it was made, the cursor it started
\* from, whether it awaited the Event, how it returned, the log length at its
\* return and the batch it returned
WaitRecord(at_complete, pending, from, blocked, how, to, batch) == [at_complete |-> at_complete, pending |-> pending, from |-> from, blocked |-> blocked, how |-> how, to |-> to, batch |-> batch]

\* the last call returns: new = self.events[self._event_index:];
\* self._event_index = len(self.events); return new
ReturnNew(how) ==
  /\ calls' = [calls EXCEPT ![Len(calls)] =
                 [@ EXCEPT !.how = how, !.to = Len(bus_events),
                           !.batch = NewEvents(bus_events, bus_index)]]
  /\ bus_index' = Len(bus_events)
  /\ consumer_pc' = "idle"
  /\ consumer_woken' = FALSE

BusInit ==
  /\ RunIdle
  /\ BlendIdle
  /\ RunsIdle
  /\ FnIdle
  /\ StreamIdle
  /\ BusIdle

\* PipelineStatus.emit(step_name, status)
BusEmit(step_name, status) ==
  /\ ~bus_complete
  /\ Len(bus_events) < MaxEmits
  /\ bus_events' = Append(bus_events, StepEvent(step_name, status))
  /\ consumer_woken' = EventSet(consumer_pc = "blocked", consumer_woken)
  /\ bus_event_set' = FALSE
  /\ UNCHANGED <<bus_complete, bus_index, consumer_pc, calls>>
  /\ UNCHANGED <<runVars, blendVars, runsVars, fnVars, streamVars>>

\* PipelineStatus.mark_complete()
MarkComplete ==
  /\ ~bus_complete
  /\ bus_complete' = TRUE
  /\ consumer_woken' = EventSet(consumer_pc = "blocked", consumer_woken)
  /\ bus_event_set' = TRUE
  /\ UNCHANGED <<bus_events, bus_index, consumer_pc, calls>>
  /\ UNCHANGED <<runVars, blendVars, runsVars, fnVars, streamVars>>

\* PipelineStatus.wait_for_event up to its await: events pending past the
\* cursor are returned at once; otherwise the call awaits the current Event
\* through asyncio.wait_for (line 47).  On an Event that is already set the
\* outcome is the interpreter's, and the repository pins no version:
\* wait_for of Python 3.12 and later awaits Event.wait() itself, which
\* returns without suspending (suspends = FALSE); wait_for of 3.10 and 3.11
\* wraps it in a task and suspends on a waiter future, which that task
\* releases as soon as the event loop has run it, so the call is suspended
\* already woken and other tasks run before it returns (suspends = TRUE)
WaitForEvent(suspends) ==
  /\ consumer_pc = "idle"
  /\ Len(calls) < MaxCalls
  /\ IF bus_index < Len(bus_events) \/ (bus_event_set /\ ~suspends)
     THEN /\ calls' = Append(calls,
                WaitRecord(bus_complete, bus_index < Len(bus_events), bus_index, FALSE,
                           IF bus_index < Len(bus_events) THEN "pending" ELSE "set",
                           Len(bus_events), NewEvents(bus_events, bus_index)))
          /\ bus_index' = Len(bus_events)
          /\ UNCHANGED <<consumer_pc, consumer_woken>>
     ELSE /\ calls' = Append(calls,
                WaitRecord(bus_complete, FALSE, bus_index, TRUE, "waiting",
                           Len(bus_events), <<>>))
          /\ consumer_pc' = "blocked"
          /\ consumer_woken' = bus_event_set
          /\ UNCHANGED bus_index
  /\ UNCHANGED <<bus_events, bus_complete, bus_event_set>>
  /\ UNCHANGED <<runVars, blendVars, runsVars, fnVars, streamVars>>

\* the awaited Event was set, or was found set: wait_for returns and the call
\* returns the slice
Resume ==
  /\ consumer_pc = "blocked"
  /\ consumer_woken
  /\ ReturnNew("signal")
  /\ UNCHANGED <<bus_events, bus_complete, bus_event_set>>
  /\ UNCHANGED <<runVars, blendVars, runsVars, fnVars, streamVars>>

\* asyncio.TimeoutError is swallowed and the call returns the slice
Timeout ==
  /\ consumer_pc = "blocked"
  /\ ReturnNew("timeout")
  /\ UNCHANGED <<bus_events, bus_complete, bus_event_set>>
  /\ UNCHANGED <<runVars, blendVars, runsVars, fnVars, streamVars>>

BusNext ==
  \/ \E step_name \in BusStepNames, status \in BusStatuses : BusEmit(step_name, status)
  \/ MarkComplete
  \/ \E suspends \in BOOLEAN : WaitForEvent(suspends)
  \/ Resume
  \/ Timeout

BusSpec == BusInit /\ [][BusNext]_vars

(***************************************************************************)
(* score_and_filter_comps called on its own, on lists of comparables built *)
(* as tests/test_comps.py builds them.                                     *)
(***************************************************************************)
\* _make_comp(ticker, ev_rev, sector=..., revenue=...) of tests/test_comps.py
MakeComp(ticker, ev_rev, sector, revenue) ==
  [ticker |-> ticker, market_cap |-> None, enterprise_value |-> None,
   revenue |-> revenue, ebitda |-> None, ev_to_revenue |-> ev_rev,
   ev_to_ebitda |-> None, sector |-> sector]

\* comparables around a target revenue of 100: the same size, a thousand
\* times larger, five times larger, a tenth, without revenue, with a negative
\* revenue, without a multiple and with a zero multiple
CompPool ==
  {MakeComp("MATCH", Some(N(8)), Some("Technology"), Some(N(100))),
   MakeComp("BIG", Some(N(10)), Some("Technology"), Some(N(100000))),
   MakeComp("FIVE", Some(N(4)), Some("Healthcare"), Some(N(500))),
   MakeComp("TENTH", Some(N(6)), Some("Software"), Some(N(10))),
   MakeComp("NOREV", Some(N(5)), Some("Software"), None),
   MakeComp("NEGREV", Some(N(5)), None, Some(N(-10))),
   MakeComp("NODATA", None, Some("Technology"), None),
   MakeComp("ZEROMULT", Some(N(0)), Some("Healthcare"), Some(N(100)))}

\* lists of at most two comparables
ComparableLists ==
  {<<>>} \cup {<<c>> : c \in CompPool} \cup {<<c, d>> : c \in CompPool, d \in CompPool}

TargetRevenues == {N(100), N(0), N(-100)}
TargetSectors == {None, Some("Technology")}

CompsInit ==
  /\ RunIdle
  /\ BlendIdle
  /\ BusIdle
  /\ RunsIdle
  /\ StreamIdle
  /\ fn_input \in {Some([comparables |-> cs, target_revenue |-> tr, target_sector |-> ts]) : cs \in ComparableLists, tr \in TargetRevenues, ts \in TargetSectors}
  /\ fn_output = None

\* score_and_filter_comps(comparables, target_revenue, target_sector)
ScoreAndFilter ==
  /\ fn_output = None
  /\ fn_output' = Some(ScoreAndFilterComps(fn_input[1].comparables,
                                           fn_input[1].target_revenue,
                                           fn_input[1].target_sector))
  /\ UNCHANGED fn_input
  /\ UNCHANGED <<runVars, blendVars, busVars, runsVars, streamVars>>

CompsNext == ScoreAndFilter

CompsSpec == CompsInit /\ [][CompsNext]_vars

(***************************************************************************)
(* compute_dcf_valuation called on its own, as tests/test_dcf.py calls it: *)
(* once on the projections and once on the same projections without       *)
(* depreciation.                                                           *)
(***************************************************************************)
\* FinancialProjections(...) with the defaults of models/request.py for capex
\* and working capital
Projections(revenue_projections, ebitda_margins, tax_rate, rates, depreciation_percent) == [revenue_projections |-> revenue_projections, ebitda_margins |-> ebitda_margins, capex_percent |-> Pct(5), nwc_change_percent |-> Pct(2), tax_rate |-> tax_rate, wacc |-> rates[1], terminal_growth_rate |-> rates[2], depreciation_percent |-> depreciation_percent]

RevenueLists == {<<>>, <<N(1000)>>, <<N(100), N(120)>>}
MarginLists == {<<>>, <<Pct(30)>>, <<N(0)>>, <<Pct(-10)>>}
TaxRates == {Pct(25), N(0)}
\* (wacc, terminal_growth_rate): the defaults of the tests, equal rates, WACC
\* below growth, WACC one point above growth, and a zero WACC above a negative
\* growth
RatePairs ==
  {<<Pct(10), Pct(3)>>, <<Pct(3), Pct(3)>>, <<Pct(2), Pct(3)>>, <<Pct(4), Pct(3)>>,
   <<N(0), Pct(-3)>>}
DepreciationPercents == {N(0), Pct(10), Pct(40)}

DcfInit ==
  /\ RunIdle
  /\ BlendIdle
  /\ BusIdle
  /\ RunsIdle
  /\ StreamIdle
  /\ fn_input \in {Some([projections |-> Projections(r, m, x, wt, d)]) : r \in RevenueLists, m \in MarginLists, x \in TaxRates, wt \in RatePairs, d \in DepreciationPercents}
  /\ fn_output = None

\* compute_dcf_valuation(with_da) and compute_dcf_valuation(base), where base
\* is with_da with depreciation_percent=0.0
ComputeDcf ==
  /\ fn_output = None
  /\ fn_output' =
       Some([result |-> ComputeDcfValuation(fn_input[1].projections),
             base |-> ComputeDcfValuation(
                        [fn_input[1].projections EXCEPT !.depreciation_percent = N(0)])])
  /\ UNCHANGED fn_input
  /\ UNCHANGED <<runVars, blendVars, busVars, runsVars, streamVars>>

DcfNext == ComputeDcf

DcfSpec == DcfInit /\ [][DcfNext]_vars

(***************************************************************************)
(* A run started by create_valuation_async and the consumer of its stream: *)
(* stream_pipeline looks the status up and event_generator loops over      *)
(* wait_for_event, yields one message per event and, once status.complete  *)
(* is set, yields the complete message, removes the entry of the registry  *)
(* and stops.  The run is the producer of the status: it emits step events *)
(* and calls mark_complete last.  Everything runs on one event loop, so    *)
(* the generator runs without interruption from one suspension (the await  *)
(* inside wait_for_event, a yield) to the next.                            *)
(***************************************************************************)
\* the messages of the stream
StepMessage(evt) == [type |-> "step", step_name |-> evt.step_name, status |-> evt.status]
CompleteMessage == [type |-> "complete", step_name |-> "", status |-> ""]

\* Fault variant of CleanupStatus: the entry is left in the registry
CleanupStatusKept(present) == present

\* cleanup_status(report_id): _statuses.pop(report_id, None)
CleanupStatus(present) == FALSE

\* routes.py 323-331: `yield` of the message of the first event of the batch;
\* the rest of the batch waits for the generator to be resumed
YieldStep(batch, index) ==
  /\ sent' = Append(sent, StepMessage(Head(batch)))
  /\ stream_batch' = Tail(batch)
  /\ stream_pc' = "yielded"
  /\ bus_index' = index
  /\ consumer_pc' = "idle"
  /\ consumer_woken' = FALSE

\* routes.py 333-334: status.complete is set, `yield` of the complete message
YieldComplete(index) ==
  /\ sent' = Append(sent, CompleteMessage)
  /\ stream_batch' = <<>>
  /\ stream_pc' = "complete_sent"
  /\ bus_index' = index
  /\ consumer_pc' = "idle"
  /\ consumer_woken' = FALSE

\* pipeline_status.py 47: the generator is suspended on the current Event,
\* already woken when that Event is set
AwaitEvent(index) ==
  /\ stream_pc' = "blocked"
  /\ stream_batch' = <<>>
  /\ bus_index' = index
  /\ consumer_pc' = "blocked"
  /\ consumer_woken' = bus_event_set
  /\ UNCHANGED sent

\* routes.py 321 with pipeline_status.py 39-53: the call of wait_for_event at
\* the top of the loop.  Pending events are returned and the first is yielded.
\* An Event that is already set (only mark_complete leaves a set Event behind)
\* returns an empty batch, after which the loop tests status.complete, either
\* without suspending or after a suspension, as asyncio.wait_for has it.
WaitCall(index) ==
  IF index < Len(bus_events)
  THEN YieldStep(NewEvents(bus_events, index), Len(bus_events))
  ELSE IF bus_event_set
  THEN \E suspends \in BOOLEAN :
         IF suspends THEN AwaitEvent(index) ELSE YieldComplete(index)
  ELSE AwaitEvent(index)

\* routes.py 333-336 after the for loop: the complete message, or the next
\* turn of the loop
AfterBatch(index) ==
  IF bus_complete THEN YieldComplete(index) ELSE WaitCall(index)

\* wait_for_event returns after its await (pipeline_status.py 51-53) and the
\* generator runs on to its next suspension
ReturnFromAwait ==
  IF bus_index < Len(bus_events)
  THEN YieldStep(NewEvents(bus_events, bus_index), Len(bus_events))
  ELSE AfterBatch(Len(bus_events))

StreamInit ==
  /\ RunIdle
  /\ BlendIdle
  /\ RunsIdle
  /\ FnIdle
  /\ BusIdle
  /\ StreamIdle

\* create_valuation_async: create_status(report_id) and
\* asyncio.create_task(pipeline.run(request, report_id, status))
CreateValuationAsync ==
  /\ ~pipeline_task
  /\ pipeline_task' = TRUE
  /\ registry' = TRUE
  /\ UNCHANGED <<stream_pc, stream_batch, sent>>
  /\ UNCHANGED <<runVars, blendVars, busVars, runsVars, fnVars>>

\* the run emits a step event: status.emit(name, ...) in run and _run_step
PipelineEmit(step_name, status) ==
  /\ pipeline_task
  /\ BusEmit(step_name, status)

\* orchestrator.py 196-197: status.mark_complete(), after the events of the
\* persist step
PipelineComplete ==
  /\ pipeline_task
  /\ bus_events # <<>>
  /\ MarkComplete

\* stream_pipeline: get_status(valuation_id) finds the entry; the client has
\* the id from the response of create_valuation_async
StreamConnect ==
  /\ stream_pc = "idle"
  /\ registry
  /\ stream_pc' = "connected"
  /\ UNCHANGED <<pipeline_task, registry, stream_batch, sent>>
  /\ UNCHANGED <<runVars, blendVars, busVars, runsVars, fnVars>>

\* the response starts to iterate event_generator
GeneratorStart ==
  /\ stream_pc = "connected"
  /\ WaitCall(bus_index)
  /\ UNCHANGED <<pipeline_task, registry>>
  /\ UNCHANGED <<bus_events, bus_complete, bus_event_set, calls>>
  /\ UNCHANGED <<runVars, blendVars, runsVars, fnVars>>

\* the generator is resumed after the yield of a step message
ResumeAfterStep ==
  /\ stream_pc = "yielded"
  /\ IF stream_batch # <<>> THEN YieldStep(stream_batch, bus_index)
     ELSE AfterBatch(bus_index)
  /\ UNCHANGED <<pipeline_task, registry>>
  /\ UNCHANGED <<bus_events, bus_complete, bus_event_set, calls>>
  /\ UNCHANGED <<runVars, blendVars, runsVars, fnVars>>

\* the Event the generator awaits was set
StreamResume ==
  /\ stream_pc = "blocked"
  /\ consumer_woken
  /\ ReturnFromAwait
  /\ UNCHANGED <<pipeline_task, registry>>
  /\ UNCHANGED <<bus_events, bus_complete, bus_event_set, calls>>
  /\ UNCHANGED <<runVars, blendVars, runsVars, fnVars>>

\* the 15 seconds of wait_for_event(timeout=15.0) passed; a timeout with
\* nothing new and no completion leaves the generator on a fresh await
StreamTimeout ==
  /\ stream_pc = "blocked"
  /\ ReturnFromAwait
  /\ UNCHANGED <<pipeline_task, registry>>
  /\ UNCHANGED <<bus_events, bus_complete, bus_event_set, calls>>
  /\ UNCHANGED <<runVars, blendVars, runsVars, fnVars>>

\* the generator is resumed after the yield of the complete message:
\* cleanup_status(valuation_id); break
StreamFinish ==
  /\ stream_pc = "complete_sent"
  /\ registry' = CleanupStatus(registry)
  /\ stream_pc' = "done"
  /\ UNCHANGED <<pipeline_task, stream_batch, sent>>
  /\ UNCHANGED <<runVars, blendVars, busVars, runsVars, fnVars>>

StreamNext ==
  \/ CreateValuationAsync
  \/ \E step_name \in BusStepNames, status \in BusStatuses : PipelineEmit(step_name, status)
  \/ PipelineComplete
  \/ StreamConnect
  \/ GeneratorStart
  \/ ResumeAfterStep
  \/ StreamResume
  \/ StreamTimeout
  \/ StreamFinish

StreamSpec == StreamInit /\ [][StreamNext]_vars

\* Fair scheduling: the event loop runs every task that is ready (the task of
\* the run, whose awaited steps return; the generator, whose client stays
\* connected and reads), and the timeout of wait_for_event fires
FairStreamSpec ==
  /\ StreamSpec
  /\ WF_vars(CreateValuationAsync)
  /\ WF_vars(\E step_name \in BusStepNames, status \in BusStatuses : PipelineEmit(step_name, status))
  /\ WF_vars(PipelineComplete)
  /\ WF_vars(StreamConnect)
  /\ WF_vars(GeneratorStart)
  /\ WF_vars(ResumeAfterStep)
  /\ WF_vars(StreamResume)
  /\ WF_vars(StreamTimeout)
  /\ WF_vars(StreamFinish)

(***************************************************************************)
(* Properties of a run.                                                    *)
(***************************************************************************)
StepOrder == <<"validate", "enrich", "fetch", "valuate", "narrate", "persist">>
StepIndex(step_name) == CHOOSE k \in 1..Len(StepOrder) : StepOrder[k] = step_name
TerminalStatus == {"completed", "failed", "skipped"}

\* the recorded steps named step_name, by position in `steps`
StepsNamed(step_name) == {i \in 1..Len(steps) : steps[i].step_name = step_name}
HasStep(step_name) == StepsNamed(step_name) # {}
StatusOf(step_name) == steps[CHOOSE i \in StepsNamed(step_name) : TRUE].status
ErrorOf(step_name) == steps[CHOOSE i \in StepsNamed(step_name) : TRUE].error

\* the positions of the events [step_name, status]
EventsOf(step_name, statuses) ==
  {j \in 1..Len(events) : events[j].step_name = step_name /\ events[j].status \in statuses}

\* the positions of a run that has not ended; each is the guard of a step
Running ==
  {"validate", "enrich", "enrich_wait", "fetch", "fetch_wait", "valuate",
   "valuate_run", "narrate", "narrate_wait", "persist", "persist_run", "return"}

\* C1: run never propagates an exception to its caller: whatever fails in
\* enrich, fetch, valuate, narrate or persist, the run is at a position from
\* which its next step is taken, or it has returned the report it assembled.
C1_RunReturnsReport ==
  /\ raised = None
  /\ pc \in Running \cup {"done"}
  /\ pc = "done" => returned # None /\ returned = report
  /\ pc \in Running => returned = None

\* a run that returned although the language model, the market-data service
\* and the database all failed and the valuation could not be made
C1_Witness ==
  /\ pc = "done"
  /\ returned # None
  /\ llm[1].fails
  /\ StatusOf("fetch") = "failed"
  /\ StatusOf("valuate") = "failed"
  /\ StatusOf("persist") = "failed"

\* C2: the steps are recorded in the order validate, enrich, fetch, valuate,
\* narrate, persist, each once; a step's first status event comes after the
\* terminal status of the step before it, no step is started twice or ends
\* twice, and at no point of the event log are two steps running.
C2_StepsInOrder ==
  /\ Len(steps) <= Len(StepOrder)
  /\ \A i \in 1..Len(steps) :
       steps[i].step_name = StepOrder[i] /\ steps[i].status \in TerminalStatus
  /\ \A j \in 1..Len(events) :
       /\ \A i \in 1..(j - 1) :
            StepIndex(events[i].step_name) <= StepIndex(events[j].step_name)
       /\ events[j].status = "started" =>
            \A i \in 1..(j - 1) : events[i].step_name # events[j].step_name
       /\ events[j].status \in TerminalStatus =>
            \A i \in 1..(j - 1) :
              ~(events[i].step_name = events[j].step_name
                /\ events[i].status \in TerminalStatus)
       /\ StepIndex(events[j].step_name) > 1 =>
            \E i \in 1..(j - 1) :
              /\ events[i].step_name = StepOrder[StepIndex(events[j].step_name) - 1]
              /\ events[i].status \in TerminalStatus
  /\ \A n \in 0..Len(events) :
       Cardinality({k \in 1..Len(StepOrder) :
                      /\ \E i \in 1..n : events[i] = [step_name |-> StepOrder[k],
                                                      status |-> "started"]
                      /\ ~\E i \in 1..n : /\ events[i].step_name = StepOrder[k]
                                          /\ events[i].status \in TerminalStatus}) <= 1

\* a finished run that announced all six steps, narrate included
C2_Witness ==
  /\ pc = "done"
  /\ Len(steps) = 6
  /\ Len(events) = 11
  /\ StatusOf("fetch") = "failed"
  /\ EventsOf("narrate", {"started"}) # {}

\* C3: persist is attempted exactly once in every run: never before narrate
\* has reached a terminal status, and always before the run is marked
\* complete and returns.
C3_PersistOnce ==
  /\ Cardinality(StepsNamed("persist")) <= 1
  /\ Cardinality(EventsOf("persist", {"started"})) <= 1
  /\ \A i \in StepsNamed("persist") :
       /\ steps[i].status \in {"completed", "failed"}
       /\ \E k \in 1..(i - 1) :
            steps[k].step_name = "narrate" /\ steps[k].status \in TerminalStatus
  /\ \A j \in EventsOf("persist", {"started"}) :
       \E i \in 1..(j - 1) :
         events[i].step_name = "narrate" /\ events[i].status \in TerminalStatus
  /\ ~HasStep("narrate") => ~HasStep("persist") /\ db = None
  /\ (complete \/ returned # None \/ pc \in {"return", "done"}) =>
       /\ Cardinality(StepsNamed("persist")) = 1
       /\ has_status => Cardinality(EventsOf("persist", {"started"})) = 1

\* a run marked complete whose valuate failed and narrate was skipped, and
\* whose persist was attempted all the same
C3_Witness ==
  /\ complete
  /\ HasStep("valuate") /\ StatusOf("valuate") = "failed"
  /\ HasStep("narrate") /\ StatusOf("narrate") = "skipped"
  /\ HasStep("persist") /\ StatusOf("persist") = "completed"
  /\ db # None

\* whether fetch asked the market-data service for anything: comparables for
\* the enrichment's tickers, or the index since the round date
FetchAsked ==
  \/ enriched[1].comparable_tickers # <<>> /\ "comps" \in enriched[1].applicable_methods
  \/ /\ "last_round" \in enriched[1].applicable_methods
     /\ request.index_ticker # None
     /\ \/ request.last_round_date # None
        \/ /\ enriched[1].estimated_last_round # None
           /\ enriched[1].estimated_last_round[1].estimated_date # ""

\* C4: when the language model fails during enrich, the enrich step is
\* recorded failed and the run goes on with the raw user inputs; when the
\* market-data service fails during fetch, the fetch step is recorded failed
\* and the run goes on with empty market data.
C4_AcquisitionFailureRecorded ==
  /\ (HasStep("enrich") /\ llm[1].fails) =>
       /\ StatusOf("enrich") = "failed"
       /\ pc # "raised"
  /\ (HasStep("fetch") /\ market[1].fails /\ FetchAsked) =>
       /\ StatusOf("fetch") = "failed"
       /\ market_data = None
       /\ pc # "raised"
  /\ (HasStep("valuate") /\ llm[1].fails) =>
       valuation[1].enriched = fallback_enrich(request)

\* C5: the error of the run is set exactly when the valuate step failed; a
\* failed valuate leaves no blended valuation and records its error text, a
\* completed valuate leaves a blended valuation, no error and no missing
\* data; the assembled report carries the same values.
C5_ErrorIffValuateFailed ==
  /\ ~HasStep("valuate") => error_message = None /\ blended = None
  /\ HasStep("valuate") =>
       /\ StatusOf("valuate") \in {"completed", "failed"}
       /\ error_message # None <=> StatusOf("valuate") = "failed"
       /\ StatusOf("valuate") = "failed" =>
            blended = None /\ ErrorOf("valuate") # None
       /\ StatusOf("valuate") = "completed" =>
            error_message = None /\ missing_data = <<>> /\ blended # None
  /\ report # None =>
       /\ report[1].pipeline_steps[4].step_name = "valuate"
       /\ report[1].error # None <=> report[1].pipeline_steps[4].status = "failed"
       /\ report[1].pipeline_steps[4].status = "failed" =>
            /\ report[1].blended_valuation = None
            /\ report[1].pipeline_steps[4].error # None
       /\ report[1].pipeline_steps[4].status = "completed" =>
            /\ report[1].error = None
            /\ report[1].missing_data = <<>>
            /\ report[1].blended_valuation # None

\* a returned report of a run whose valuate failed
C5_Witness ==
  /\ pc = "done"
  /\ returned # None
  /\ returned[1].error # None
  /\ returned[1].blended_valuation = None
  /\ StatusOf("valuate") = "failed"

\* C6: narrate is recorded skipped exactly when the run has no blended
\* valuation with fair value > 0, which is exactly when valuate failed;
\* otherwise narrate is started.  A skipped narrate emits neither started nor
\* failed, and the narrative of the run and of its report stays null.
C6_NarrateSkippedIffNoValue ==
  /\ pc = "narrate_wait" => blended # None /\ RPos(blended[1].fair_value)
  /\ HasStep("narrate") =>
       /\ StatusOf("narrate") = "skipped"
            <=> ~(blended # None /\ RPos(blended[1].fair_value))
       /\ StatusOf("narrate") = "skipped" <=> StatusOf("valuate") = "failed"
       /\ StatusOf("narrate") = "skipped" =>
            /\ EventsOf("narrate", {"started", "failed"}) = {}
            /\ narrative = None
            /\ report # None => report[1].narrative = None
       /\ (StatusOf("narrate") # "skipped" /\ has_status) =>
            /\ EventsOf("narrate", {"started"}) # {}
            /\ EventsOf("narrate", {"skipped"}) = {}

\* a finished, announced run whose narrate was skipped
C6_Witness ==
  /\ pc = "done"
  /\ has_status
  /\ StatusOf("narrate") = "skipped"
  /\ EventsOf("narrate", {"skipped"}) # {}
  /\ returned[1].narrative = None

\* C7: when valuate fails with InsufficientDataError the error names at least
\* one missing field, the run's missing_data is that list, and the report
\* that is saved under the run's id carries it.
C7_InsufficientDataNamesMissing ==
  (HasStep("valuate") /\ valuation[1].raises
   /\ valuation[1].exc = "InsufficientDataError") =>
     /\ valuation[1].missing_fields # <<>>
     /\ missing_data = valuation[1].missing_fields
     /\ report # None => report[1].missing_data = missing_data
     /\ (HasStep("persist") /\ StatusOf("persist") = "completed" /\ db # None) =>
          db[1].missing_data = missing_data

\* what run_valuations was called with
UsedEnrichment == valuation[1].enriched
UsedMarketData == IF market_data = None THEN EmptyMarketData ELSE market_data[1]

\* the target revenue that is known: the user's, or a positive estimate when
\* the user gave none
KnownRevenue ==
  IF request.revenue # None THEN request.revenue
  ELSE IF /\ UsedEnrichment.estimated_financials # None
          /\ UsedEnrichment.estimated_financials[1].estimated_revenue # None
          /\ RPos(UsedEnrichment.estimated_financials[1].estimated_revenue[1])
       THEN UsedEnrichment.estimated_financials[1].estimated_revenue
  ELSE None

\* an estimated last round stands in for an incomplete user-supplied one
EstimatedRoundUsed ==
  /\ request.last_round_valuation = None \/ request.last_round_date = None
  /\ UsedEnrichment.estimated_last_round # None
  /\ RPos(UsedEnrichment.estimated_last_round[1].estimated_valuation)
  /\ UsedEnrichment.estimated_last_round[1].estimated_date # ""

HasEstimatedGrowth ==
  /\ UsedEnrichment.estimated_projections # None
  /\ UsedEnrichment.estimated_projections[1].estimated_growth_rates # <<>>

\* the data prerequisite of a method as the specification words it
Prerequisite(method) ==
  CASE method = "comps" ->
         KnownRevenue # None /\ Len(UsedMarketData.comparables) >= 1
    [] method = "dcf" ->
         \/ request.financial_projections # None
         \/ HasEstimatedGrowth /\ KnownRevenue # None
    [] method = "last_round" ->
         \/ EstimatedRoundUsed
         \/ /\ request.last_round_valuation # None
            /\ RPos(request.last_round_valuation[1])
            /\ request.last_round_date # None

\* the data prerequisite of a method with a revenue of zero counted as unknown
PrerequisiteNonZero(method) ==
  CASE method = "comps" ->
         /\ KnownRevenue # None /\ ~RZero(KnownRevenue[1])
         /\ Len(UsedMarketData.comparables) >= 1
    [] method = "dcf" ->
         \/ request.financial_projections # None
         \/ HasEstimatedGrowth /\ KnownRevenue # None /\ ~RZero(KnownRevenue[1])
    [] method = "last_round" -> Prerequisite("last_round")

\* the result of a method inside a blended valuation
MethodResult(b, method) ==
  CASE method = "comps" -> b.comps_result
    [] method = "dcf" -> b.dcf_result
    [] method = "last_round" -> b.last_round_result

\* C8 as stated: run_valuations invokes a method exactly when its data
\* prerequisite holds, and a method whose prerequisite does not hold has a
\* null result in the blended valuation.
C8_InvokedIffPrerequisite ==
  HasStep("valuate") =>
    \A method \in Methods :
      /\ method \in valuation[1].can_run <=> Prerequisite(method)
      /\ (blended # None /\ ~Prerequisite(method)) =>
           MethodResult(blended[1], method) = None

\* C8 amended: run_valuations invokes a method exactly when the enrichment
\* lists it among the applicable methods and its data prerequisite holds, a
\* revenue of zero counting as unknown; a method that was not invoked has a
\* null result in the blended valuation, and an invoked one that did not
\* raise has a result.
C8_InvokedIffListedAndPrerequisite ==
  HasStep("valuate") =>
    \A method \in Methods :
      /\ method \in valuation[1].can_run
           <=> /\ method \in UsedEnrichment.applicable_methods
               /\ PrerequisiteNonZero(method)
      /\ (blended # None /\ method \notin valuation[1].can_run) =>
           MethodResult(blended[1], method) = None
      /\ (blended # None /\ method \in valuation[1].can_run
          /\ method \notin valuation[1].method_raised) =>
           MethodResult(blended[1], method) # None

\* the user supplied projections, the enrichment did not list the DCF, and
\* the valuation was made from comps alone
C8_Witness ==
  /\ HasStep("valuate")
  /\ request.financial_projections # None
  /\ "dcf" \notin UsedEnrichment.applicable_methods
  /\ valuation[1].can_run = {"comps"}
  /\ blended # None
  /\ blended[1].comps_result # None
  /\ blended[1].dcf_result = None
  /\ blended[1].last_round_result = None

\* C9: when the computation of a method raises, run_valuations does not
\* propagate that exception; the method has a null result, every other
\* runnable method has its result, and the blend is the weighted sum over
\* exactly the other methods that produced a positive value.
C9_MethodFailureIsolated ==
  (HasStep("valuate") /\ valuation[1].method_raised # {}) =>
    /\ valuation[1].raises => valuation[1].exc = "InsufficientDataError"
    /\ StatusOf("valuate") = "failed" => ErrorOf("valuate") = Some(InsufficientDataMessage)
    /\ blended # None =>
         /\ \A method \in valuation[1].method_raised :
              MethodResult(blended[1], method) = None
         /\ \A method \in valuation[1].can_run \ valuation[1].method_raised :
              MethodResult(blended[1], method) # None
         /\ {blended[1].methodology_weights[i].method :
               i \in 1..Len(blended[1].methodology_weights)}
            = {method \in valuation[1].can_run \ valuation[1].method_raised :
                 RPos(MethodResult(blended[1], method)[1].enterprise_value)}
         /\ blended[1].fair_value
            = RSum([i \in 1..Len(blended[1].methodology_weights) |->
                      RMul(blended[1].methodology_weights[i].weight,
                           MethodResult(blended[1],
                                        blended[1].methodology_weights[i].method)[1]
                             .enterprise_value)])

\* the DCF raised on projections without margins; comps and last round ran
\* and were blended
C9_Witness ==
  /\ HasStep("valuate")
  /\ valuation[1].method_raised = {"dcf"}
  /\ valuation[1].can_run = Methods
  /\ blended # None
  /\ blended[1].dcf_result = None
  /\ Len(blended[1].methodology_weights) = 2

\* the reports that exist: the one the run assembled and the one stored
Reports == {rep \in {report, db} : rep # None}

\* C10: run_valuations never returns a blended valuation with fair value 0
\* (it raises InsufficientDataError instead), and hence every blended
\* valuation held by a report, assembled or stored, has fair value > 0 and at
\* least one methodology weight.
C10_StoredBlendIsPositive ==
  /\ (valuation # None /\ ~valuation[1].raises) => RPos(valuation[1].value.fair_value)
  /\ \A rep \in Reports :
       rep[1].blended_valuation # None =>
         /\ RPos(rep[1].blended_valuation[1].fair_value)
         /\ rep[1].blended_valuation[1].methodology_weights # <<>>

(***************************************************************************)
(* Properties of compute_blended_valuation.                                *)
(***************************************************************************)
\* the result passed for a method
ArgOf(method) ==
  CASE method = "comps" -> arg_comps
    [] method = "dcf" -> arg_dcf
    [] method = "last_round" -> arg_last_round

\* a method contributes: its result is present with enterprise value > 0
Contributes(method) ==
  ArgOf(method) # None /\ RPos(ArgOf(method)[1].enterprise_value)

Contributors == {method \in Methods : Contributes(method)}

\* no weight map, or an empty one, was passed: the heuristic chooses
DefaultWeighting == arg_custom_weights = None \/ arg_custom_weights = Some(<<>>)

WeightMethods(b) ==
  {b.methodology_weights[i].method : i \in 1..Len(b.methodology_weights)}

WeightSum(b) ==
  RSum([i \in 1..Len(b.methodology_weights) |-> b.methodology_weights[i].weight])

\* the sum of weight x enterprise value over the weight entries
WeightedValue(b) ==
  RSum([i \in 1..Len(b.methodology_weights) |->
          RMul(b.methodology_weights[i].weight,
               ArgOf(b.methodology_weights[i].method)[1].enterprise_value)])

\* C11: under default weighting, when at least one method contributes, the
\* blender returns exactly one weight per contributing method and none for
\* any other, the weights sum to 1, and a single contributing method gets
\* weight 1 with fair_value equal to its enterprise value.
C11_DefaultWeightsSumToOne ==
  (blend_result # None /\ DefaultWeighting /\ Contributors # {}) =>
    /\ WeightMethods(blend_result[1]) = Contributors
    /\ Len(blend_result[1].methodology_weights) = Cardinality(Contributors)
    /\ WeightSum(blend_result[1]) = N(1)
    /\ \A method \in Methods :
         Contributors = {method} =>
           /\ blend_result[1].methodology_weights[1].weight = N(1)
           /\ blend_result[1].fair_value = ArgOf(method)[1].enterprise_value

\* comps alone contributes 100 next to a zero-valued DCF result
C11_Witness ==
  /\ blend_result # None
  /\ arg_custom_weights = None
  /\ Contributors = {"comps"}
  /\ arg_dcf # None
  /\ blend_result[1].fair_value = N(100)
  /\ Len(blend_result[1].methodology_weights) = 1

\* C12: when the caller supplies a weight map (one with entries) and at
\* least one method contributes, the heuristic is not used, the weight entries are among the
\* contributing methods, the weights sum to 1, and fair_value is the sum of
\* weight x enterprise value over them.
C12_CustomWeightsSumToOne ==
  (blend_result # None /\ arg_custom_weights # None /\ arg_custom_weights[1] # <<>>
   /\ Contributors # {}) =>
    /\ \A i \in 1..Len(blend_result[1].methodology_weights) :
         blend_result[1].methodology_weights[i].rationale = "Custom weight"
    /\ WeightMethods(blend_result[1]) \subseteq Contributors
    /\ WeightSum(blend_result[1]) = N(1)
    /\ blend_result[1].fair_value = WeightedValue(blend_result[1])

\* the result passed for a method, left out unless it contributes
OnlyIfContributes(method) == IF Contributes(method) THEN ArgOf(method) ELSE None

\* C13: a result that is present without a positive enterprise value never
\* appears in methodology_weights and does not change fair_value (the blend
\* is worth what it is worth without that result), and when no method
\* contributes the blender returns fair_value 0, range [0, 0] and no weights.
C13_ZeroValuedExcluded ==
  blend_result # None =>
    /\ WeightMethods(blend_result[1]) \subseteq Contributors
    /\ blend_result[1].fair_value
       = ComputeBlendedValuation(OnlyIfContributes("comps"), OnlyIfContributes("dcf"),
                                 OnlyIfContributes("last_round"),
                                 arg_custom_weights).fair_value
    /\ Contributors = {} =>
         /\ blend_result[1].fair_value = N(0)
         /\ blend_result[1].fair_value_range = <<N(0), N(0)>>
         /\ blend_result[1].methodology_weights = <<>>

\* a zero-valued comps result is passed next to a DCF worth 200
C13_Witness ==
  /\ blend_result # None
  /\ arg_comps # None /\ RZero(arg_comps[1].enterprise_value)
  /\ Contributors = {"dcf"}
  /\ arg_custom_weights = None
  /\ blend_result[1].fair_value = N(200)
  /\ WeightMethods(blend_result[1]) = {"dcf"}

\* the weight before normalization that the heuristic is said to give
RawWeight(method) ==
  CASE method = "comps" ->
         IF arg_comps[1].comparable_count >= 3 THEN Pct(40) ELSE Pct(25)
    [] method = "dcf" ->
         IF \E i \in 1..Len(arg_dcf[1].warnings) : HasMarker(arg_dcf[1].warnings[i])
         THEN Pct(15) ELSE Pct(35)
    [] method = "last_round" ->
         IF \E i \in 1..Len(arg_last_round[1].warnings) :
              HasMarker(arg_last_round[1].warnings[i])
         THEN Pct(10)
         ELSE IF /\ arg_last_round[1].months_since_round # None
                 /\ arg_last_round[1].months_since_round[1] > 18
         THEN Pct(15)
         ELSE Pct(25)

RawTotal ==
  RSum([i \in 1..3 |->
          IF Contributes(<<"comps", "dcf", "last_round">>[i])
          THEN RawWeight(<<"comps", "dcf", "last_round">>[i]) ELSE N(0)])

\* the normalized weight of a method that has a weight entry
WeightOf(b, method) ==
  b.methodology_weights[CHOOSE i \in 1..Len(b.methodology_weights) :
                          b.methodology_weights[i].method = method].weight

\* every weight entry is the said raw weight over the total of the
\* contributing methods
WeightsAreRawOverTotal ==
  (blend_result # None /\ DefaultWeighting /\ Contributors # {}) =>
    \A method \in Contributors :
      /\ method \in WeightMethods(blend_result[1])
      /\ WeightOf(blend_result[1], method) = RDiv(RawWeight(method), RawTotal)

\* the last round passed is a fresh (6-month) contributing one
FreshRound ==
  /\ Contributes("last_round")
  /\ arg_last_round[1].months_since_round = Some(6)

\* the normalized weight of the same round at 24 months, all else equal
StaleTwinWeight ==
  WeightOf(ComputeBlendedValuation(
             arg_comps, arg_dcf,
             Some([arg_last_round[1] EXCEPT !.months_since_round = Some(24)]),
             arg_custom_weights),
           "last_round")

RoundIsEstimated ==
  \E i \in 1..Len(arg_last_round[1].warnings) : HasMarker(arg_last_round[1].warnings[i])

\* C14 as stated: the default weights before normalization are those of the
\* table, the estimation flag being checked before staleness, and a stale
\* (24-month) round always gets a strictly smaller normalized weight than a
\* fresh (6-month) one, all else equal.
C14_StaleAlwaysSmaller ==
  /\ WeightsAreRawOverTotal
  /\ (blend_result # None /\ DefaultWeighting /\ FreshRound) =>
       RLt(StaleTwinWeight, WeightOf(blend_result[1], "last_round"))

\* C14 amended: the default weights before normalization are those of the
\* table, the estimation flag being checked before staleness, and a stale
\* (24-month) round gets a strictly smaller normalized weight than a fresh
\* (6-month) one, all else equal, when the round is not model-estimated and
\* another method contributes; otherwise the two weights are equal.
C14_StaleSmallerUnlessAloneOrEstimated ==
  /\ WeightsAreRawOverTotal
  /\ (blend_result # None /\ DefaultWeighting /\ FreshRound) =>
       IF ~RoundIsEstimated /\ Contributors # {"last_round"}
       THEN RLt(StaleTwinWeight, WeightOf(blend_result[1], "last_round"))
       ELSE StaleTwinWeight = WeightOf(blend_result[1], "last_round")

\* a fresh round that is not model-estimated is blended with comps and a DCF
C14_Witness ==
  /\ blend_result # None
  /\ arg_custom_weights = None
  /\ FreshRound
  /\ ~RoundIsEstimated
  /\ Contributors = Methods
  /\ RLt(StaleTwinWeight, WeightOf(blend_result[1], "last_round"))

(***************************************************************************)
(* Properties of the re-blend.                                             *)
(***************************************************************************)
\* C15: a re-blend recomputes only the fair value, range and weights from
\* the stored method results and the new weights.  The stored comps, DCF
\* and last-round results, the pipeline steps, the enrichment, the market
\* data and the rest of the report are unchanged, the run and its steps are
\* untouched, and when there is no stored report or it has no blended
\* valuation nothing changes and no report is returned.
C15_ReblendFrame ==
  [][(reweights' # reweights) =>
       /\ UNCHANGED <<pc, steps, events, complete, enriched, market_data, blended,
                      narrative, report, returned, llm, market, valuation>>
       /\ IF db = None \/ db[1].blended_valuation = None
          THEN db' = db /\ reweighted' = Some(None)
          ELSE /\ db' # None
               /\ reweighted' = Some(db')
               /\ db'[1].enriched_input = db[1].enriched_input
               /\ db'[1].market_data_summary = db[1].market_data_summary
               /\ db'[1].narrative = db[1].narrative
               /\ db'[1].error = db[1].error
               /\ db'[1].missing_data = db[1].missing_data
               /\ db'[1].pipeline_steps = db[1].pipeline_steps
               /\ db'[1].blended_valuation # None
               /\ db'[1].blended_valuation[1].comps_result
                  = db[1].blended_valuation[1].comps_result
               /\ db'[1].blended_valuation[1].dcf_result
                  = db[1].blended_valuation[1].dcf_result
               /\ db'[1].blended_valuation[1].last_round_result
                  = db[1].blended_valuation[1].last_round_result
               /\ \E w \in WeightChoices :
                    db'[1].blended_valuation[1]
                    = ComputeBlendedValuation(db[1].blended_valuation[1].comps_result,
                                              db[1].blended_valuation[1].dcf_result,
                                              db[1].blended_valuation[1].last_round_result,
                                              Some(w))
  ]_vars

\* a stored report with a DCF result was re-blended: its fair value changed
\* and its steps are those the run recorded
C15_Witness ==
  /\ reweights = 1
  /\ db # None /\ report # None
  /\ reweighted = Some(db)
  /\ db[1].blended_valuation # None
  /\ db[1].blended_valuation[1].dcf_result # None
  /\ db[1].blended_valuation[1].fair_value
     # report[1].blended_valuation[1].fair_value
  /\ db[1].pipeline_steps = report[1].pipeline_steps

\* C16: two runs with distinct report identifiers on the same services do not
\* affect each other; here, every assembled report carries exactly the LLM
\* calls its own run made, in the order it made them
C16_RunsIndependent ==
  \A report_id \in DOMAIN run_logs :
    run_logs[report_id] # None => run_logs[report_id][1] = run_calls[report_id]

\* the batches of the calls that have returned, one after the other
RECURSIVE Delivered(_)
Delivered(cs) ==
  IF cs = <<>> THEN <<>>
  ELSE Delivered(SubSeq(cs, 1, Len(cs) - 1))
       \o (IF cs[Len(cs)].how = "waiting" THEN <<>> ELSE cs[Len(cs)].batch)

\* C17: for a single consumer the batches returned so far, concatenated, are
\* a prefix of the event log (append order, each event once), the cursor is
\* the length of that prefix, never exceeds the log and never decreases
C17_BatchesArePrefixOfLog ==
  /\ [](/\ bus_index <= Len(bus_events)
        /\ Delivered(calls) = SubSeq(bus_events, 1, bus_index))
  /\ [][bus_index' >= bus_index]_vars

C17_Witness ==
  /\ Len(calls) >= 3
  /\ calls[1].batch # <<>>
  /\ calls[2].how = "signal"
  /\ calls[2].batch # <<>>
  /\ calls[3].how = "pending"
  /\ bus_complete
  /\ bus_index = MaxEmits

\* C18 as stated: a call made with events pending returns them without
\* awaiting; a call made after mark_complete never awaits; a call that
\* awaited returns by a signal or the timeout with the events appended since
\* the cursor (none on a timeout with no events); a consumer that is waiting
\* when emit or mark_complete is called has been woken
C18_NeverAwaitsAfterComplete ==
  /\ \A i \in 1..Len(calls) :
       LET c == calls[i] IN
         /\ c.pending => ~c.blocked /\ c.how = "pending" /\ c.batch # <<>>
         /\ c.at_complete => ~c.blocked
         /\ c.blocked => c.how \in {"waiting", "signal", "timeout"}
         /\ c.how = "signal" => c.to > c.from \/ bus_complete
         /\ c.how # "waiting" => c.batch = SubSeq(bus_events, c.from + 1, c.to)
         /\ c.how = "timeout" /\ c.to = c.from => c.batch = <<>>
  /\ consumer_pc = "blocked" /\ (bus_index < Len(bus_events) \/ bus_complete)
       => consumer_woken
  /\ consumer_pc = "blocked" <=> (calls # <<>> /\ calls[Len(calls)].how = "waiting")

\* C18: a call made with events pending returns them without awaiting; a
\* call made after mark_complete with nothing pending returns without
\* awaiting or awaits an Event that is already set, so that it is woken from
\* the moment it suspends, waits for no later emit and returns an empty
\* batch; a call that awaited returns by a signal or the timeout with the
\* events appended since the cursor (none on a timeout with no events); a
\* consumer that is waiting when emit or mark_complete is called has been
\* woken
C18_BlocksOnlyWhenNothingPending ==
  /\ \A i \in 1..Len(calls) :
       LET c == calls[i] IN
         /\ c.pending => ~c.blocked /\ c.how = "pending" /\ c.batch # <<>>
         /\ c.at_complete /\ ~c.pending =>
              /\ c.how \in {"set", "waiting", "signal", "timeout"}
              /\ c.how = "set" <=> ~c.blocked
              /\ c.how = "waiting" => consumer_woken
              /\ c.to = c.from /\ c.batch = <<>>
         /\ c.blocked => c.how \in {"waiting", "signal", "timeout"}
         /\ c.how = "signal" => c.to > c.from \/ bus_complete
         /\ c.how # "waiting" => c.batch = SubSeq(bus_events, c.from + 1, c.to)
         /\ c.how = "timeout" /\ c.to = c.from => c.batch = <<>>
  /\ consumer_pc = "blocked" /\ (bus_index < Len(bus_events) \/ bus_complete)
       => consumer_woken
  /\ consumer_pc = "blocked" <=> (calls # <<>> /\ calls[Len(calls)].how = "waiting")

C18_Witness ==
  /\ Len(calls) >= 4
  /\ calls[1].how = "timeout"
  /\ calls[1].batch = <<>>
  /\ calls[2].how = "signal"
  /\ calls[2].batch # <<>>
  /\ calls[3].at_complete
  /\ calls[3].how = "set"
  /\ calls[4].at_complete
  /\ calls[4].blocked
  /\ calls[4].how = "signal"

\* the step whose PipelineStep object exists in status "running": it has been
\* created by _run_step (line 207) or by the valuate block (line 122) and is
\* not yet appended to `steps`
RunningStep ==
  CASE pc = "enrich_wait" -> Some("enrich")
    [] pc = "fetch_wait" -> Some("fetch")
    [] pc = "valuate_run" -> Some("valuate")
    [] pc = "narrate_wait" -> Some("narrate")
    [] pc = "persist_run" -> Some("persist")
    [] OTHER -> None

\* every recorded step is terminal, no step is recorded twice, and every step
\* record of a report is terminal
StepRecordsTerminal ==
  /\ \A i \in 1..Len(steps) : steps[i].status \in TerminalStatus
  /\ \A i, j \in 1..Len(steps) : steps[i].step_name = steps[j].step_name => i = j
  /\ \A rep \in Reports :
       \A i \in 1..Len(rep[1].pipeline_steps) :
         rep[1].pipeline_steps[i].status \in TerminalStatus

\* a recorded step never changes
StepRecordsFrozen ==
  /\ Len(steps') >= Len(steps)
  /\ SubSeq(steps', 1, Len(steps)) = steps

\* C19 as stated: every step reaches its terminal status from running, and
\* only once, a terminal status never changes, and every step record of a
\* report is terminal
C19_TerminalOnlyFromRunning ==
  /\ []StepRecordsTerminal
  /\ [][/\ StepRecordsFrozen
         /\ \A i \in (Len(steps) + 1)..Len(steps') :
              RunningStep = Some(steps'[i].step_name)]_vars

\* C19, amended: enrich, fetch, valuate, persist and a narrate that runs reach
\* their terminal status (completed or failed) from running; validate is
\* recorded as completed and a skipped narrate as skipped without ever
\* running; each step gets one terminal status, which never changes, and
\* every step record of a report is terminal
C19_TerminalFromRunningOrCreatedTerminal ==
  /\ []StepRecordsTerminal
  /\ [][/\ StepRecordsFrozen
         /\ \A i \in (Len(steps) + 1)..Len(steps') :
              LET s == steps'[i] IN
                \/ /\ RunningStep = Some(s.step_name)
                   /\ s.status \in {"completed", "failed"}
                \/ /\ RunningStep = None
                   /\ \/ s.step_name = "validate" /\ s.status = "completed"
                      \/ s.step_name = "narrate" /\ s.status = "skipped"]_vars

C19_Witness ==
  /\ pc = "done"
  /\ Len(steps) = 6
  /\ StatusOf("validate") = "completed"
  /\ StatusOf("enrich") = "completed"
  /\ StatusOf("fetch") = "failed"
  /\ StatusOf("valuate") = "failed"
  /\ StatusOf("narrate") = "skipped"
  /\ StatusOf("persist") = "completed"

\* the step names of a list of step records, in order
RECURSIVE StepNames(_)
StepNames(records) ==
  IF records = <<>> THEN <<>>
  ELSE <<records[1].step_name>> \o StepNames(Tail(records))

\* the reports a run has assembled, stored or returned
AssembledReports == {rep \in {report, db, returned} : rep # None}

\* C20 as stated: the final report of a run holds one record for each of the
\* six steps validate, enrich, fetch, valuate, narrate, persist, in that
\* order, and records are only ever appended
C20_ReportHasSixSteps ==
  /\ [](\A rep \in AssembledReports : pc = "done" =>
            StepNames(rep[1].pipeline_steps) = StepOrder)
  /\ [][StepRecordsFrozen]_vars

\* C20, amended: the step list of a run holds one record per step in the order
\* validate, enrich, fetch, valuate, narrate, persist, all six once the run
\* has returned, and records are only ever appended; the report the run
\* assembles, stores and returns holds the first five of them, the persist
\* record being appended to the run's list after the report is built
C20_RunHasSixStepsReportFive ==
  /\ [](/\ StepNames(steps) = SubSeq(StepOrder, 1, Len(steps))
        /\ pc = "done" => StepNames(steps) = StepOrder
        /\ \A rep \in AssembledReports :
             /\ StepNames(rep[1].pipeline_steps) = SubSeq(StepOrder, 1, 5)
             /\ rep[1].pipeline_steps = SubSeq(steps, 1, 5))
  /\ [][/\ StepRecordsFrozen
         /\ report # None => report'[1].pipeline_steps = report[1].pipeline_steps]_vars

C20_Witness ==
  /\ pc = "done"
  /\ StepNames(steps) = StepOrder
  /\ returned # None
  /\ Len(returned[1].pipeline_steps) = 5
  /\ db # None
  /\ Len(db[1].pipeline_steps) = 5
  /\ StatusOf("narrate") = "completed"

\* the call of score_and_filter_comps and what it returned
ScoredCall == fn_input # None /\ fn_output # None /\ "comparables" \in DOMAIN fn_input[1]

\* the comparables whose record is flagged included, in order
RECURSIVE Flagged(_, _)
Flagged(comparables, scores) ==
  IF comparables = <<>> THEN <<>>
  ELSE (IF Head(scores).included THEN <<Head(comparables)>> ELSE <<>>)
       \o Flagged(Tail(comparables), Tail(scores))

\* C21: score_and_filter_comps returns one record per input comparable, in
\* order; a record is excluded for missing EV/Revenue when its quality score
\* is 0, else for size when its size score is 0 and the target revenue is
\* known, else for a composite below 0.3, else it is included; it has a reason
\* exactly when it is excluded, and the included list is the flagged ones
C21_OneScorePerCompRulesInOrder ==
  ScoredCall =>
    LET comparables == fn_input[1].comparables
        known == RPos(fn_input[1].target_revenue)
        scores == fn_output[1].scores
        included == fn_output[1].included
    IN  /\ Len(scores) = Len(comparables)
        /\ Len(included) <= Len(comparables)
        /\ included = Flagged(comparables, scores)
        /\ \A i \in 1..Len(scores) :
             LET s == scores[i]
                 no_quality == RZero(s.data_quality_score)
                 no_size == RZero(s.size_proximity_score) /\ known
                 low == RLt(s.composite_score, Rat(3, 10))
             IN  /\ s.ticker = comparables[i].ticker
                 /\ s.included <=> s.exclusion_reason = None
                 /\ s.exclusion_reason =
                      (IF no_quality THEN Some("Missing EV/Revenue data")
                       ELSE IF no_size
                            THEN Some("Revenue outside 0.1x-10x range of target")
                       ELSE IF low THEN Some("Composite score below threshold")
                       ELSE None)

C21_Witness ==
  /\ ScoredCall
  /\ Len(fn_output[1].scores) = 2
  /\ Len(fn_output[1].included) = 1
  /\ fn_output[1].scores[1].exclusion_reason = Some("Composite score below threshold")
  /\ RPos(fn_input[1].target_revenue)
  /\ fn_output[1].scores[2].included

\* C22: the size-proximity score recorded for a scored comparable is 0 when
\* the comparable's revenue is missing or not positive, when the target
\* revenue is not positive, and when the ratio of the two revenues is outside
\* [0.1, 10]; it is 1 when the ratio is exactly 1
C22_RecordedSizeScore ==
  ScoredCall =>
    LET comparables == fn_input[1].comparables
        target == fn_input[1].target_revenue
        scores == fn_output[1].scores
    IN  \A i \in 1..Len(scores) :
          LET revenue == comparables[i].revenue
              size == scores[i].size_proximity_score
          IN  /\ revenue = None \/ ~RPos(revenue[1]) => RZero(size)
              /\ ~RPos(target) => RZero(size)
              /\ revenue # None /\ RPos(revenue[1]) /\ RPos(target) =>
                   LET ratio == RDiv(revenue[1], target)
                   IN  /\ RLt(ratio, Rat(1, 10)) \/ RLt(N(10), ratio) => RZero(size)
                       /\ ratio = N(1) => size = N(1)

\* the call of compute_dcf_valuation, its projections and what it returned
DcfCall == fn_input # None /\ fn_output # None /\ "projections" \in DOMAIN fn_input[1]
DcfProjections == fn_input[1].projections
DcfPrimary ==
  /\ DcfCall
  /\ ~RLe(DcfProjections.wacc, DcfProjections.terminal_growth_rate)
  /\ DcfProjections.revenue_projections # <<>>
  /\ ~fn_output[1].result.raises

\* C23: with WACC <= terminal growth compute_dcf_valuation returns, whatever
\* the projections, enterprise value 0, no cash flows and the WACC warning;
\* otherwise, without revenue projections, it returns enterprise value 0 with
\* the no-projections warning; in both cases no exception is raised and the
\* sensitivity table is empty
C23_BadInputsReturnZero ==
  DcfCall =>
    LET call == fn_output[1].result
    IN  /\ RLe(DcfProjections.wacc, DcfProjections.terminal_growth_rate) =>
             /\ ~call.raises
             /\ RZero(call.value.enterprise_value)
             /\ call.value.projected_fcfs = <<>>
             /\ call.value.warnings = <<"WACC must be greater than terminal growth rate">>
             /\ call.value.sensitivity_table = <<>>
        /\ (/\ ~RLe(DcfProjections.wacc, DcfProjections.terminal_growth_rate)
            /\ DcfProjections.revenue_projections = <<>>) =>
             /\ ~call.raises
             /\ RZero(call.value.enterprise_value)
             /\ call.value.warnings = <<"No revenue projections provided">>
             /\ call.value.sensitivity_table = <<>>

C23_Witness ==
  /\ DcfCall
  /\ DcfProjections.wacc = DcfProjections.terminal_growth_rate
  /\ DcfProjections.revenue_projections = <<>>
  /\ DcfProjections.ebitda_margins = <<>>
  /\ ~fn_output[1].result.raises
  /\ fn_output[1].result.value.warnings = <<"WACC must be greater than terminal growth rate">>

\* the (wacc, growth) pairs of the 5x5 grid around the base pair
GridPairs(base_wacc, base_tgr) ==
  {<<RAdd(base_wacc, WaccDeltas[i]), RAdd(base_tgr, TgrDeltas[j])>> : i \in DOMAIN WaccDeltas, j \in DOMAIN TgrDeltas}

\* C24: whenever compute_dcf_valuation computes a primary result, the
\* sensitivity table has at most 25 cells, holds exactly the grid pairs with
\* WACC > growth and WACC > 0, and contains the cell of the base pair, whose
\* enterprise value is the primary enterprise value rounded to cents
C24_BaseCellRetained ==
  DcfPrimary =>
    LET r == fn_output[1].result.value
        table == r.sensitivity_table
    IN  /\ Len(table) <= 25
        /\ {<<table[i].wacc, table[i].terminal_growth_rate>> : i \in DOMAIN table}
             = {<<Round4(g[1]), Round4(g[2])>> : g \in {h \in GridPairs(DcfProjections.wacc, DcfProjections.terminal_growth_rate) : ~(RLe(h[1], h[2]) \/ RLe(h[1], N(0)))}}
        /\ \E i \in DOMAIN table :
             /\ table[i].wacc = Round4(DcfProjections.wacc)
             /\ table[i].terminal_growth_rate = Round4(DcfProjections.terminal_growth_rate)
             /\ table[i].enterprise_value = Round2(r.enterprise_value)

\* the same for a positive base WACC, where the base pair is never skipped;
\* a pair whose two sums are equal is kept as well when the doubles put the
\* WACC above the growth rate
C24_BaseCellRetainedPositiveWacc ==
  (DcfPrimary /\ RLt(N(0), DcfProjections.wacc)) =>
    LET r == fn_output[1].result.value
        table == r.sensitivity_table
        pairs == {<<table[i].wacc, table[i].terminal_growth_rate>> : i \in DOMAIN table}
        above == {<<Round4(g[1]), Round4(g[2])>> : g \in {h \in GridPairs(DcfProjections.wacc, DcfProjections.terminal_growth_rate) : ~(RLe(h[1], h[2]) \/ RLe(h[1], N(0)))}}
    IN  /\ Len(table) <= 25
        /\ above \subseteq pairs
        /\ \A g \in pairs \ above : g[1] = g[2]
        /\ \E i \in DOMAIN table :
             /\ table[i].wacc = Round4(DcfProjections.wacc)
             /\ table[i].terminal_growth_rate = Round4(DcfProjections.terminal_growth_rate)
             /\ table[i].enterprise_value = Round2(r.enterprise_value)

\* a primary result whose table keeps a pair of equal rates: 0.04 - 0.02 is
\* above 0.03 - 0.01 in doubles
C24_TieKept ==
  /\ DcfPrimary
  /\ \E i \in DOMAIN fn_output[1].result.value.sensitivity_table :
       LET cell == fn_output[1].result.value.sensitivity_table[i]
       IN  cell.wacc = cell.terminal_growth_rate /\ Len(cell.enterprise_value) = 3

\* the year-1 cash flows of the two results of a call with positive depreciation
DepreciationCompared ==
  /\ DcfPrimary
  /\ ~fn_output[1].base.raises
  /\ RLt(N(0), DcfProjections.depreciation_percent)
  /\ RLe(N(0), DcfProjections.revenue_projections[1])
  /\ RLe(N(0), DcfProjections.tax_rate)
Year1Fcf(call) == call.value.projected_fcfs[1]
Year1Ebitda == RMul(DcfProjections.revenue_projections[1], MarginAt(DcfProjections.ebitda_margins, 1))
\* tax = EBITDA - CapEx - dNWC - FCF, read back from a result
Year1Tax(call) ==
  RSub(RSub(RSub(Year1Ebitda, RMul(DcfProjections.revenue_projections[1], DcfProjections.capex_percent)),
            RMul(DcfProjections.revenue_projections[1], DcfProjections.nwc_change_percent)),
       Year1Fcf(call))

\* C25 as stated: with positive depreciation the year-1 free cash flow is
\* strictly greater than that of the same projections with depreciation 0
C25_DepreciationStrictlyIncreasesFcf ==
  DepreciationCompared => RLt(Year1Fcf(fn_output[1].base), Year1Fcf(fn_output[1].result))

\* C25 amended: for non-negative revenue and tax rate, the year-1 free cash
\* flow with positive depreciation is never smaller than with depreciation 0,
\* and strictly greater exactly when year-1 EBITDA x tax_rate is positive; the
\* tax is max(0, (EBITDA - D&A) x tax_rate), never negative
C25_DepreciationIncreasesFcfWhenTaxed ==
  DepreciationCompared =>
    /\ RLe(Year1Fcf(fn_output[1].base), Year1Fcf(fn_output[1].result))
    /\ RLt(Year1Fcf(fn_output[1].base), Year1Fcf(fn_output[1].result))
         <=> RLt(N(0), RMul(Year1Ebitda, DcfProjections.tax_rate))
    /\ RLe(N(0), Year1Tax(fn_output[1].result))
    /\ RLe(N(0), Year1Tax(fn_output[1].base))
    /\ Year1Tax(fn_output[1].result)
         = RMax(N(0), RMul(RSub(Year1Ebitda,
                                RMul(DcfProjections.revenue_projections[1],
                                     DcfProjections.depreciation_percent)),
                           DcfProjections.tax_rate))

\* test_depreciation_tax_shield: revenue 1000, margin 30%, tax 25%,
\* depreciation 10%: 180 against 155
C25_Witness ==
  /\ DepreciationCompared
  /\ Year1Fcf(fn_output[1].base) = N(155)
  /\ Year1Fcf(fn_output[1].result) = N(180)

\* the step events the consumer has forwarded, in order
Forwarded == SelectSeq(sent, LAMBDA m : m.type = "step")
CompleteSent == \E i \in DOMAIN sent : sent[i] = CompleteMessage

\* C26: when the consumer sends the complete message it has forwarded every
\* event the run emitted
C26_AllEventsForwardedBeforeComplete ==
  CompleteSent =>
    Forwarded = [i \in DOMAIN bus_events |-> StepMessage(bus_events[i])]

\* what the consumer forwards is always a prefix of the log, in order
C26_ForwardedIsPrefixOfLog ==
  /\ Len(Forwarded) <= Len(bus_events)
  /\ \A i \in DOMAIN Forwarded : Forwarded[i] = StepMessage(bus_events[i])

\* how many complete messages the consumer has sent
CompletesSent == Cardinality({i \in DOMAIN sent : sent[i] = CompleteMessage})

\* C28: under fair scheduling the run is eventually marked complete, and the
\* consumer then eventually has sent the complete message exactly once,
\* removed the entry of the registry and stopped; the entry is present from
\* create_status until the consumer stops and is never removed before the
\* completion flag is set
C28_RunCompletesAndStreamCleansUp ==
  /\ [](registry <=> (pipeline_task /\ stream_pc # "done"))
  /\ []((pipeline_task /\ ~registry) => bus_complete)
  /\ [](CompletesSent <= 1)
  /\ (pipeline_task ~> bus_complete)
  /\ (bus_complete ~> (stream_pc = "done" /\ ~registry /\ CompletesSent = 1))
  /\ []((stream_pc = "done") => [](stream_pc = "done" /\ ~registry))

C28_Witness ==
  /\ pipeline_task
  /\ bus_complete
  /\ stream_pc = "done"
  /\ ~registry
  /\ CompletesSent = 1
  /\ Len(Forwarded) = Len(bus_events)
  /\ Len(bus_events) > 1

\* the log ends with the terminal event of the persist step
PersistEventLast ==
  /\ events # <<>>
  /\ events[Len(events)].step_name = "persist"
  /\ events[Len(events)].status \in {"completed", "failed"}

\* a step of the run keeps the events emitted so far, in place
LogExtended ==
  /\ Len(events') >= Len(events)
  /\ SubSeq(events', 1, Len(events)) = events

\* C27: the event log of a run is append-only and its completion flag is
\* monotonic: emitted events are never changed or removed, the flag is set
\* only after the terminal event of the persist step was appended, it is never
\* cleared, and no event is appended once it is set
C27_LogAppendOnlyFlagMonotonic ==
  /\ [][LogExtended]_vars
  /\ [][complete => (complete' /\ events' = events)]_vars
  /\ [][(~complete /\ complete') => (PersistEventLast /\ events' = events)]_vars
  /\ [](complete => PersistEventLast)

C27_Witness ==
  /\ has_status
  /\ complete
  /\ events[Len(events)] = [step_name |-> "persist", status |-> "failed"]
  /\ Len(events) > 8
  /\ reweights > 0

\* the last-round result of the blend the valuate step produced
LastRoundRan == blended # None /\ blended[1].last_round_result # None
LastRoundOfRun == blended[1].last_round_result[1]
FlaggedEstimated(result) ==
  \E i \in DOMAIN result.warnings : result.warnings[i] = ModelEstimatedLastRoundWarning

\* C29: user-provided last-round data takes priority over the research
\* estimate: when the request supplies a last_round_valuation, the last-round
\* result is computed from that valuation and is not flagged model-estimated;
\* only a request without a last-round valuation gets the estimate
C29_UserLastRoundTakesPriority ==
  LastRoundRan =>
    /\ request.last_round_valuation # None =>
         /\ LastRoundOfRun.last_round_valuation = request.last_round_valuation[1]
         /\ ~FlaggedEstimated(LastRoundOfRun)
    /\ FlaggedEstimated(LastRoundOfRun) => request.last_round_valuation = None

\* the same for a request that supplies both the valuation and the date
C29_UserLastRoundWithDateTakesPriority ==
  (LastRoundRan /\ request.last_round_valuation # None /\ request.last_round_date # None) =>
    /\ LastRoundOfRun.last_round_valuation = request.last_round_valuation[1]
    /\ ~FlaggedEstimated(LastRoundOfRun)

\* C30: the valuate step reads its inputs without changing them: the request,
\* the enrichment output and the market data are the same after run_valuations
\* as before, so the report shows the enrichment as the enrich step returned it
C30_ValuateLeavesInputsUnchanged ==
  [][pc = "valuate_run" =>
       (request' = request /\ enriched' = enriched /\ market_data' = market_data)]_vars

\* what the valuate step does leave alone: the request, the market data and
\* every field of the enrichment but the margins of its estimated projections
C30_ValuateChangesOnlyEstimatedMargins ==
  [][pc = "valuate_run" =>
       /\ request' = request
       /\ market_data' = market_data
       /\ (enriched = None) <=> (enriched' = None)
       /\ enriched # None =>
            /\ [enriched'[1] EXCEPT !.estimated_projections = None]
                 = [enriched[1] EXCEPT !.estimated_projections = None]
            /\ (enriched[1].estimated_projections = None)
                 <=> (enriched'[1].estimated_projections = None)
            /\ enriched[1].estimated_projections # None =>
                 [enriched'[1].estimated_projections[1] EXCEPT !.estimated_ebitda_margins = <<>>]
                  = [enriched[1].estimated_projections[1] EXCEPT !.estimated_ebitda_margins = <<>>]]_vars

=============================================================================
